---- MODULE Spec2Model ----
(***************************************************************************)
(* Verification model of bun-osv-scanner: the severity classifier          *)
(* (src/core/severity.ts), the advisory builder (src/app/securityService.ts)*)
(* the policy transform and the scan orchestration (src/boot/scanner.ts),  *)
(* with the lock parser and the package conversion it relies on, and the   *)
(* two OSV scanner adapters: the REST adapter                              *)
(* (src/adapters/osvScannerApi.ts, src/core/osvApiTranslator.ts) and the   *)
(* CLI adapter (src/adapters/osvScannerCli.ts).                            *)
(*                                                                         *)
(* Representation.                                                         *)
(*  - Texts the code inspects character by character (severity labels,     *)
(*    score strings) are tuples of one-character strings.                  *)
(*  - An optional value (a JavaScript property that may be undefined) is a *)
(*    tuple of length 0 (undefined) or 1 (the value): None / Some(x).      *)
(*  - A JavaScript number is <<"finite", t>> with t the value in tenths    *)
(*    rounded down, or NaN / Infinity / -Infinity.  The two thresholds the *)
(*    code compares with (7.0 and 4.0) are whole tenths, so x >= 7.0 holds *)
(*    exactly when floor(10x) >= 70: the abstraction keeps every           *)
(*    comparison and every maximum the code computes.                      *)
(*  - Package names, versions and lock entries are texts too: the keys the *)
(*    orchestration compares are built by concatenation around "@" and the *)
(*    lock parser splits an entry at its last "@".                         *)
(*  - scan is asynchronous: each of its actions runs it from one await to  *)
(*    the next (readLock, resolveDependencies, the security service).      *)
(*    Environment variables and the lock file are read where the code      *)
(*    reads them.                                                          *)
(***************************************************************************)
EXTENDS Integers, Sequences, FiniteSets, TLC

VARIABLES
    finding,      \* classifier harness: the OsvPackageFinding handed to classifyPackageSeverity
    level,        \* classifier harness: what classifyPackageSeverity returned
    cpc,          \* classifier harness: "ready" | "classified"
    body,         \* OsvScanResultsBody delivered by the OSV scanner port
    advisories,   \* what buildAdvisories returned
    policy,       \* runtimeConfig.policy (optional PolicyConfig)
    final,        \* what applyPolicy returned
    pc,           \* service pipeline: "scanning" | "built" | "done" | "threw"
    cliArgsError, \* createScanner: the error of parseArgs(argv), if it failed
    providedPackages, \* scan: the packages argument (optional list)
    spc,          \* scan: "created" | "readLock" | "resolve" | "service" | "returned" | "threw"
    lockResult,   \* scan: what readLock answered, once it has
    fsFallback,   \* scan: BUN_OSV_ENABLE_FS_FALLBACK === "1", once read
    staleLockWarn,\* scan: BUN_OSV_ENABLE_STALE_LOCK_WARN === "1", once read
    route,        \* scan: the branch whose await is pending
    staleWarn,    \* scan: the local staleWarn (optional advisory)
    usedPackagesInsteadOfLock, \* scan: the local of that name
    submitted,    \* scan: the calls made to the security service, in order
    answers,      \* scan: what the security service answered to each call
    resolveCalls, \* scan: calls made to resolveDependencies
    readLockCalls,\* scan: calls made to readLock
    result,       \* scan: the advisory list scan returned, once it has
    rpc,          \* REST adapter: "idle" | "querybatch" | "vulns" | "returned" | "threw"
    sbom,         \* REST adapter: the SBOM document scan was called with
    batchSize,    \* REST adapter: options.batchSize
    pending,      \* REST adapter: the queue of queries not yet sent
    batch,        \* REST adapter: the queries of the request in flight
    entriesOrder, \* REST adapter: vulnerability ids collected per coordinate
    vulnerabilityIds, \* REST adapter: uniqueVulnerabilityIds, once collected
    detailMap,    \* REST adapter: the detail documents fetched so far
    requests,     \* REST adapter: the requests handed to fetch, in order
    responses,    \* REST adapter: what fetch answered to each request
    restResult,   \* REST adapter: what scan returned, once it has
    tpc,          \* CLI adapter: "idle" | "creating" | "running" | "disposing" | "returned" | "threw"
    tempFile,     \* CLI adapter: the temporary SBOM file, once created
    disposeCalls, \* CLI adapter: calls made to tempFile.dispose
    execution,    \* CLI adapter: what the command runner answered, once it has
    cliResult     \* CLI adapter: what scan returned, once it has

serviceVars == <<finding, level, cpc, body, advisories, policy, final, pc>>

scanVars ==
    <<cliArgsError, providedPackages, spc, lockResult, fsFallback, staleLockWarn, route,
      staleWarn, usedPackagesInsteadOfLock, submitted, answers,
      resolveCalls, readLockCalls, result>>

restVars ==
    <<rpc, sbom, batchSize, pending, batch, entriesOrder, vulnerabilityIds, detailMap,
      requests, responses, restResult>>

cliVars == <<tpc, tempFile, disposeCalls, execution, cliResult>>

adapterVars == <<restVars, cliVars>>

vars == <<serviceVars, scanVars, adapterVars>>

----------------------------------------------------------------------------
(* Bounds of the model *)

MaxVulns == 2        \* vulnerabilities per finding in the classifier harness
MaxAdded == 2        \* warn-level vulnerabilities added to a finding (C2)
MaxFindings == 3     \* findings in one scan result body
MaxResults == 2      \* results (sources) in one scan result body
MaxPackages == 2     \* packages handed to one call of scan

----------------------------------------------------------------------------
(* JavaScript values *)

None == <<>>
Some(x) == <<x>>
IsSome(o) == Len(o) = 1
Get(o) == o[1]

\* no scanner has been created and no scan is under way
NoScan ==
    /\ cliArgsError = None
    /\ providedPackages = None
    /\ spc = "idle"
    /\ lockResult = None
    /\ fsFallback = None
    /\ staleLockWarn = None
    /\ route = "none"
    /\ staleWarn = None
    /\ usedPackagesInsteadOfLock = FALSE
    /\ submitted = <<>>
    /\ answers = <<>>
    /\ resolveCalls = 0
    /\ readLockCalls = 0
    /\ result = None

\* no adapter scan is under way
NoRest ==
    /\ rpc = "idle"
    /\ sbom = None
    /\ batchSize = 1
    /\ pending = <<>>
    /\ batch = <<>>
    /\ entriesOrder = <<>>
    /\ vulnerabilityIds = <<>>
    /\ detailMap = <<>>
    /\ requests = <<>>
    /\ responses = <<>>
    /\ restResult = None

NoCli ==
    /\ tpc = "idle"
    /\ tempFile = None
    /\ disposeCalls = 0
    /\ execution = None
    /\ cliResult = None

NoAdapters == NoRest /\ NoCli

NULL == "<null>"
UNDEFINED == "<undefined>"
THROWN == "<TypeError>"

NaN == <<"NaN", 0>>
Infinity == <<"Infinity", 0>>
NegInfinity == <<"-Infinity", 0>>
NoNumber == <<"null", 0>>
NumberThrown == <<"throw", 0>>
Num(t) == <<"finite", t>>

\* Number.isFinite
IsFinite(x) == x[1] = "finite"

\* the >= operator of JavaScript on a number and a finite threshold (in tenths)
GreaterEq(x, t) ==
    CASE x[1] = "finite" -> x[2] >= t
      [] x[1] = "Infinity" -> TRUE
      [] OTHER -> FALSE

Max2(a, b) == IF a >= b THEN a ELSE b

RECURSIVE FiniteMax(_)
FiniteMax(xs) ==
    IF Len(xs) = 1 THEN xs[1][2] ELSE Max2(xs[1][2], FiniteMax(Tail(xs)))

\* Math.max(...xs) for a non-empty list of numbers
MathMax(xs) ==
    LET idx == 1..Len(xs)
        fin == SelectSeq(xs, IsFinite)
    IN  IF \E i \in idx : xs[i] = NaN THEN NaN
        ELSE IF \E i \in idx : xs[i] = Infinity THEN Infinity
        ELSE IF Len(fin) = 0 THEN NegInfinity
        ELSE Num(FiniteMax(fin))

RECURSIVE SeqMap(_, _)
SeqMap(Op(_), s) ==
    IF s = <<>> THEN <<>> ELSE <<Op(Head(s))>> \o SeqMap(Op, Tail(s))

RECURSIVE Flatten(_)
Flatten(ss) == IF ss = <<>> THEN <<>> ELSE Head(ss) \o Flatten(Tail(ss))

----------------------------------------------------------------------------
(* parseFloat (ECMAScript): skip leading white space, then take the longest *)
(* prefix that is a StrDecimalLiteral; NaN when there is none.              *)

WhiteSpace == {" ", "\t", "\n"}
Digit == {"0", "1", "2", "3", "4", "5", "6", "7", "8", "9"}

DigitVal(c) ==
    CASE c = "0" -> 0 [] c = "1" -> 1 [] c = "2" -> 2 [] c = "3" -> 3
      [] c = "4" -> 4 [] c = "5" -> 5 [] c = "6" -> 6 [] c = "7" -> 7
      [] c = "8" -> 8 [] c = "9" -> 9

RECURSIVE SkipWhite(_, _)
SkipWhite(s, i) ==
    IF i <= Len(s) /\ s[i] \in WhiteSpace THEN SkipWhite(s, i + 1) ELSE i

RECURSIVE CountDigits(_, _)
CountDigits(s, i) ==
    IF i <= Len(s) /\ s[i] \in Digit THEN 1 + CountDigits(s, i + 1) ELSE 0

RECURSIVE DigitsValue(_, _, _)
DigitsValue(s, i, n) ==
    IF n = 0 THEN 0 ELSE DigitsValue(s, i, n - 1) * 10 + DigitVal(s[i + n - 1])

\* floor(a / b) for b > 0; \div already rounds towards minus infinity
FloorDiv(a, b) == a \div b

RECURSIVE Pow10(_)
Pow10(n) == IF n = 0 THEN 1 ELSE 10 * Pow10(n - 1)

HasPrefixAt(s, i, p) ==
    /\ i + Len(p) - 1 <= Len(s)
    /\ SubSeq(s, i, i + Len(p) - 1) = p

InfinityLiteral == <<"I", "n", "f", "i", "n", "i", "t", "y">>

\* the StrDecimalLiteral at t[i1..] has nInt integer digits, nFrac fraction
\* digits and the decimal exponent exp; the result is floor(10 * value)
DecimalValue(t, i1, neg, nInt, nFrac, exp) ==
    IF exp + 1 - nFrac >= 0
    THEN Num((IF neg THEN 0 - 1 ELSE 1)
             * (DigitsValue(t, i1, nInt) * Pow10(nFrac)
                    + DigitsValue(t, i1 + nInt + 1, nFrac))
             * Pow10(exp + 1 - nFrac))
    ELSE Num(FloorDiv((IF neg THEN 0 - 1 ELSE 1)
                      * (DigitsValue(t, i1, nInt) * Pow10(nFrac)
                            + DigitsValue(t, i1 + nInt + 1, nFrac)),
                      Pow10(nFrac - exp - 1)))

\* ExponentPart at t[iE]: e or E, an optional sign, at least one digit
ExponentAt(t, iE) ==
    IF ~(iE <= Len(t) /\ t[iE] \in {"e", "E"}) THEN 0
    ELSE IF iE + 1 <= Len(t) /\ t[iE + 1] = "-"
        THEN 0 - DigitsValue(t, iE + 2, CountDigits(t, iE + 2))
    ELSE IF iE + 1 <= Len(t) /\ t[iE + 1] = "+"
        THEN DigitsValue(t, iE + 2, CountDigits(t, iE + 2))
    ELSE DigitsValue(t, iE + 1, CountDigits(t, iE + 1))

ParseFraction(t, i1, neg, nInt, nFrac, hasDot) ==
    IF nInt = 0 /\ nFrac = 0 THEN NaN
    ELSE DecimalValue(t, i1, neg, nInt, nFrac,
                      ExponentAt(t, i1 + nInt + (IF hasDot THEN 1 + nFrac ELSE 0)))

ParseDigits(t, i1, neg, nInt) ==
    IF i1 + nInt <= Len(t) /\ t[i1 + nInt] = "."
    THEN ParseFraction(t, i1, neg, nInt, CountDigits(t, i1 + nInt + 1), TRUE)
    ELSE ParseFraction(t, i1, neg, nInt, 0, FALSE)

ParseUnsigned(t, i1, neg) ==
    IF HasPrefixAt(t, i1, InfinityLiteral)
    THEN (IF neg THEN NegInfinity ELSE Infinity)
    ELSE ParseDigits(t, i1, neg, CountDigits(t, i1))

ParseSigned(t, i0) ==
    IF i0 <= Len(t) /\ t[i0] \in {"+", "-"}
    THEN ParseUnsigned(t, i0 + 1, t[i0] = "-")
    ELSE ParseUnsigned(t, i0, FALSE)

\* s is an optional text: parseFloat(undefined) parses the text "undefined"
ParseFloat(s) ==
    IF ~IsSome(s) THEN NaN ELSE ParseSigned(Get(s), SkipWhite(Get(s), 1))

----------------------------------------------------------------------------
(* Texts *)

T_CRITICAL == <<"C", "R", "I", "T", "I", "C", "A", "L">>
T_HIGH == <<"H", "I", "G", "H">>
T_MODERATE == <<"M", "O", "D", "E", "R", "A", "T", "E">>
T_LOW == <<"L", "O", "W">>
T_high == <<"h", "i", "g", "h">>
T_Critical == <<"C", "r", "i", "t", "i", "c", "a", "l">>
T_moderate == <<"m", "o", "d", "e", "r", "a", "t", "e">>
T_UNKNOWN == <<"U", "N", "K", "N", "O", "W", "N">>
T_empty == <<>>

T_7_0 == <<"7", ".", "0">>
T_6_9 == <<"6", ".", "9">>
T_4_0 == <<"4", ".", "0">>
T_3_9 == <<"3", ".", "9">>
T_8_1 == <<"8", ".", "1">>
T_7 == <<"7">>
T_1e1 == <<"1", "e", "1">>
T_sp_9_8 == <<" ", "9", ".", "8">>
T_Infinity == InfinityLiteral
T_CVSS == <<"C", "V", "S", "S", ":", "3", ".", "1", "/", "A", "V", ":", "N">>

----------------------------------------------------------------------------
(* src/core/severity.ts *)

ADVISORY_LEVEL_FATAL == "fatal"
ADVISORY_LEVEL_WARN == "warn"

OSV_SEVERITY_LABEL_CRITICAL == T_CRITICAL
OSV_SEVERITY_LABEL_HIGH == T_HIGH
OSV_SEVERITY_LABEL_MODERATE == T_MODERATE
OSV_SEVERITY_LABEL_LOW == T_LOW

FATAL_LABELS == {OSV_SEVERITY_LABEL_CRITICAL, OSV_SEVERITY_LABEL_HIGH}
WARN_LABELS == {OSV_SEVERITY_LABEL_MODERATE, OSV_SEVERITY_LABEL_LOW}

\* thresholds in tenths: 7.0 and 4.0
FATAL_CVSS_THRESHOLD == 70
WARN_CVSS_THRESHOLD == 40

\* x?.severity for an optional databaseSpecific / database_specific object
OptionalSeverity(ds) == IF IsSome(ds) THEN Get(ds).severity ELSE None

\* v.databaseSpecific?.severity ?? v.database_specific?.severity
SeverityLabelOf(v) ==
    LET a == OptionalSeverity(v.databaseSpecific)
    IN  IF IsSome(a) THEN a ELSE OptionalSeverity(v.database_specific)

\* typeof label === "string" && label.length > 0
IsNonEmptyLabel(l) == IsSome(l) /\ Len(Get(l)) > 0

Letters == <<<<"a", "A">>, <<"b", "B">>, <<"c", "C">>, <<"d", "D">>,
             <<"e", "E">>, <<"f", "F">>, <<"g", "G">>, <<"h", "H">>,
             <<"i", "I">>, <<"j", "J">>, <<"k", "K">>, <<"l", "L">>,
             <<"m", "M">>, <<"n", "N">>, <<"o", "O">>, <<"p", "P">>,
             <<"q", "Q">>, <<"r", "R">>, <<"s", "S">>, <<"t", "T">>,
             <<"u", "U">>, <<"v", "V">>, <<"w", "W">>, <<"x", "X">>,
             <<"y", "Y">>, <<"z", "Z">>>>

ToUpperChar(c) ==
    IF \E i \in 1..Len(Letters) : Letters[i][1] = c
    THEN Letters[CHOOSE i \in 1..Len(Letters) : Letters[i][1] = c][2]
    ELSE c

\* String.prototype.toUpperCase on a text
ToUpperCase(t) == [i \in 1..Len(t) |-> ToUpperChar(t[i])]

\* a collectSeverityLabels that folds case before the labels are compared
collectSeverityLabels_CaseFolded(f) ==
    SeqMap(LAMBDA l : ToUpperCase(Get(l)),
           SelectSeq(SeqMap(SeverityLabelOf, f.vulnerabilities), IsNonEmptyLabel))

collectSeverityLabels(f) ==
    SeqMap(Get, SelectSeq(SeqMap(SeverityLabelOf, f.vulnerabilities), IsNonEmptyLabel))

\* group.maxSeverity ?? ""
MaxSeverityText(g) == IF IsSome(g.maxSeverity) THEN g.maxSeverity ELSE Some(T_empty)

GroupsOf(f) == IF IsSome(f.groups) THEN Get(f.groups) ELSE <<>>

\* finding.vulnerabilities.flatMap((v) => v.severity); only called when every
\* severity is an array
SeveritySignals(f) == Flatten(SeqMap(LAMBDA v : Get(v.severity), f.vulnerabilities))

\* a findMaxNumericSeverity that forgets both Number.isFinite filters
findMaxNumericSeverity_Unfiltered(f) ==
    LET groupScores == SeqMap(LAMBDA g : ParseFloat(MaxSeverityText(g)), GroupsOf(f))
    IN  IF \E i \in 1..Len(f.vulnerabilities) : ~IsSome(f.vulnerabilities[i].severity)
        THEN NumberThrown
        ELSE
        LET vulnerabilityScores ==
                SeqMap(LAMBDA signal : ParseFloat(signal.score), SeveritySignals(f))
            allScores == groupScores \o vulnerabilityScores
        IN  IF Len(allScores) = 0 THEN NoNumber ELSE MathMax(allScores)

\* a vulnerability whose severity is undefined puts undefined into the
\* flattened list, and reading signal.score of it throws a TypeError
findMaxNumericSeverity(f) ==
    LET groupScores ==
            SelectSeq(SeqMap(LAMBDA g : ParseFloat(MaxSeverityText(g)), GroupsOf(f)),
                      IsFinite)
    IN  IF \E i \in 1..Len(f.vulnerabilities) : ~IsSome(f.vulnerabilities[i].severity)
        THEN NumberThrown
        ELSE
        LET vulnerabilityScores ==
                SelectSeq(SeqMap(LAMBDA signal : ParseFloat(signal.score),
                                 SeveritySignals(f)),
                          IsFinite)
            allScores == groupScores \o vulnerabilityScores
        IN  IF Len(allScores) = 0 THEN NoNumber ELSE MathMax(allScores)

SomeLabelIn(labels, set) == \E i \in 1..Len(labels) : labels[i] \in set

\* a classifier that tries the warn labels before the numeric fatal threshold
classifyPackageSeverity_WarnLabelsFirst(f) ==
    LET labels == collectSeverityLabels(f)
    IN  IF SomeLabelIn(labels, FATAL_LABELS) THEN ADVISORY_LEVEL_FATAL
        ELSE IF SomeLabelIn(labels, WARN_LABELS) THEN ADVISORY_LEVEL_WARN
        ELSE
        LET numericSeverity == findMaxNumericSeverity(f)
        IN  IF numericSeverity = NumberThrown THEN THROWN
            ELSE IF numericSeverity # NoNumber
                    /\ GreaterEq(numericSeverity, FATAL_CVSS_THRESHOLD)
                THEN ADVISORY_LEVEL_FATAL
            ELSE IF numericSeverity # NoNumber
                    /\ GreaterEq(numericSeverity, WARN_CVSS_THRESHOLD)
                THEN ADVISORY_LEVEL_WARN
            ELSE NULL

\* a classifier that looks at the first vulnerability's label only
classifyPackageSeverity_FirstLabelOnly(f) ==
    LET all == collectSeverityLabels(f)
        labels == IF Len(f.vulnerabilities) > 0
                     /\ IsNonEmptyLabel(SeverityLabelOf(f.vulnerabilities[1]))
                  THEN <<all[1]>> ELSE <<>>
    IN  IF SomeLabelIn(labels, FATAL_LABELS) THEN ADVISORY_LEVEL_FATAL
        ELSE
        LET numericSeverity == findMaxNumericSeverity(f)
        IN  IF numericSeverity = NumberThrown THEN THROWN
            ELSE IF numericSeverity # NoNumber
                    /\ GreaterEq(numericSeverity, FATAL_CVSS_THRESHOLD)
                THEN ADVISORY_LEVEL_FATAL
            ELSE IF SomeLabelIn(labels, WARN_LABELS) THEN ADVISORY_LEVEL_WARN
            ELSE IF numericSeverity # NoNumber
                    /\ GreaterEq(numericSeverity, WARN_CVSS_THRESHOLD)
                THEN ADVISORY_LEVEL_WARN
            ELSE NULL

classifyPackageSeverity(f) ==
    LET labels == collectSeverityLabels(f)
    IN  IF SomeLabelIn(labels, FATAL_LABELS) THEN ADVISORY_LEVEL_FATAL
        ELSE
        LET numericSeverity == findMaxNumericSeverity(f)
        IN  IF numericSeverity = NumberThrown THEN THROWN
            ELSE IF numericSeverity # NoNumber
                    /\ GreaterEq(numericSeverity, FATAL_CVSS_THRESHOLD)
                THEN ADVISORY_LEVEL_FATAL
            ELSE IF SomeLabelIn(labels, WARN_LABELS) THEN ADVISORY_LEVEL_WARN
            ELSE IF numericSeverity # NoNumber
                    /\ GreaterEq(numericSeverity, WARN_CVSS_THRESHOLD)
                THEN ADVISORY_LEVEL_WARN
            ELSE NULL

----------------------------------------------------------------------------
(* Inputs of the classifier harness: well-typed OsvPackageFinding values    *)
(* (src/types/osv.ts): severity is an array, everything else optional.      *)

Label(t) == Some([severity |-> Some(t)])
NoLabel == Some([severity |-> None])
Score(t) == [type |-> "CVSS_V3", score |-> Some(t)]
ScoreMissing == [type |-> "CVSS_V3", score |-> None]
Group(ms) == [ids |-> <<>>, maxSeverity |-> ms]

Vuln(id, ds, d_s, sev) ==
    [id |-> id, summary |-> UNDEFINED, details |-> UNDEFINED,
     severity |-> Some(sev), references |-> None,
     databaseSpecific |-> ds, database_specific |-> d_s]

ClassifierVulns ==
    { Vuln("V01", None, None, <<>>),
      Vuln("V02", Label(T_CRITICAL), None, <<>>),
      Vuln("V03", None, Label(T_HIGH), <<>>),
      Vuln("V04", Label(T_MODERATE), None, <<Score(T_CVSS)>>),
      Vuln("V05", NoLabel, Label(T_LOW), <<>>),
      Vuln("V06", Label(T_high), None, <<>>),
      Vuln("V07", Label(T_moderate), None, <<>>),
      Vuln("V08", Label(T_Critical), None, <<Score(T_3_9)>>),
      Vuln("V09", Label(T_UNKNOWN), None, <<ScoreMissing>>),
      Vuln("V10", None, None, <<Score(T_7_0)>>),
      Vuln("V11", None, None, <<Score(T_6_9)>>),
      Vuln("V12", None, None, <<Score(T_4_0)>>),
      Vuln("V13", None, None, <<Score(T_3_9)>>),
      Vuln("V14", Label(T_empty), None, <<Score(T_CVSS), Score(T_Infinity)>>),
      Vuln("V15", None, None, <<Score(T_3_9), Score(T_sp_9_8)>>) }

ClassifierGroups ==
    { None,
      Some(<<>>),
      Some(<<Group(None)>>),
      Some(<<Group(Some(T_8_1))>>),
      Some(<<Group(Some(T_4_0))>>),
      Some(<<Group(Some(T_Infinity))>>),
      Some(<<Group(Some(T_1e1))>>),
      Some(<<Group(Some(T_3_9)), Group(Some(T_CVSS))>>) }

\* lists of at most n distinct elements of S (ids are unique within a finding)
RECURSIVE DistinctSeqs(_, _)
DistinctSeqs(S, n) ==
    IF n = 0 THEN {<<>>}
    ELSE LET shorter == DistinctSeqs(S, n - 1)
         IN  shorter \cup
             UNION { { Append(q, x) :
                         x \in { y \in S : \A i \in 1..Len(q) : q[i] # y } } :
                     q \in shorter }

PackageOf(name) == [name |-> name, version |-> "1.0.0", ecosystem |-> "npm"]

Finding(name, vs, gs) ==
    [package |-> PackageOf(name), vulnerabilities |-> vs, groups |-> gs]

ClassifierFindings ==
    { Finding("pkg-name", vs, gs) :
        vs \in DistinctSeqs(ClassifierVulns, MaxVulns), gs \in ClassifierGroups }

IdleFinding == Finding("idle", <<>>, None)

----------------------------------------------------------------------------
(* Classifier harness: one call of classifyPackageSeverity on one finding   *)

InitClassify ==
    /\ finding \in ClassifierFindings
    /\ level = UNDEFINED
    /\ cpc = "ready"
    /\ body = <<>>
    /\ advisories = <<>>
    /\ policy = None
    /\ final = <<>>
    /\ pc = "idle"
    /\ NoScan
    /\ NoAdapters

Classify ==
    /\ cpc = "ready"
    /\ level' = classifyPackageSeverity(finding)
    /\ cpc' = "classified"
    /\ UNCHANGED <<finding, body, advisories, policy, final, pc>>
    /\ UNCHANGED <<scanVars, adapterVars>>

NextClassify == Classify

SpecClassify == InitClassify /\ [][NextClassify]_vars

----------------------------------------------------------------------------
(* Vocabulary of the classifier claims, stated on the finding itself        *)

Vulns(f) == { f.vulnerabilities[i] : i \in 1..Len(f.vulnerabilities) }

\* the vulnerability's textual severity label is t (the label is read from
\* databaseSpecific, and from database_specific when the former has none)
CarriesLabel(v, t) ==
    \/ /\ IsSome(v.databaseSpecific)
       /\ Get(v.databaseSpecific).severity = Some(t)
    \/ /\ ~(IsSome(v.databaseSpecific) /\ IsSome(Get(v.databaseSpecific).severity))
       /\ IsSome(v.database_specific)
       /\ Get(v.database_specific).severity = Some(t)

LabelsCarried(f) ==
    { t \in { T_CRITICAL, T_HIGH, T_MODERATE, T_LOW, T_high, T_Critical,
              T_moderate, T_UNKNOWN } : \E v \in Vulns(f) : CarriesLabel(v, t) }

\* every score text of the finding: groups[].maxSeverity and severity[].score
ScoreTexts(f) ==
    { GroupsOf(f)[i].maxSeverity : i \in 1..Len(GroupsOf(f)) }
    \cup UNION { { Get(v.severity)[i].score : i \in 1..Len(Get(v.severity)) } :
                 v \in { w \in Vulns(f) : IsSome(w.severity) } }

FiniteScores(f) ==
    { ParseFloat(s)[2] : s \in { u \in ScoreTexts(f) : IsFinite(ParseFloat(u)) } }

MaxScoreAtLeast(f, t) ==
    /\ FiniteScores(f) # {}
    /\ (CHOOSE m \in FiniteScores(f) : \A x \in FiniteScores(f) : x <= m) >= t

ReferenceLevel(f) ==
    IF LabelsCarried(f) \cap {T_CRITICAL, T_HIGH} # {} THEN "fatal"
    ELSE IF MaxScoreAtLeast(f, 70) THEN "fatal"
    ELSE IF LabelsCarried(f) \cap {T_MODERATE, T_LOW} # {} THEN "warn"
    ELSE IF MaxScoreAtLeast(f, 40) THEN "warn"
    ELSE NULL

\* no label at all and exactly one score, the text t
OnlyScore(f, t) ==
    /\ LabelsCarried(f) = {}
    /\ GroupsOf(f) = <<>>
    /\ Len(f.vulnerabilities) = 1
    /\ f.vulnerabilities[1].severity = Some(<<Score(t)>>)

\* C1: classifyPackageSeverity equals the reference decision function (fatal
\* label, then maximum score >= 7.0, then warn label, then maximum score
\* >= 4.0, else null, first match winning), and both thresholds are
\* inclusive: a lone score 7.0 is fatal, 6.9 warn, 4.0 warn, 3.9 null.
C1_ReferenceDecision ==
    cpc = "classified" =>
        /\ level = ReferenceLevel(finding)
        /\ OnlyScore(finding, T_7_0) => level = "fatal"
        /\ OnlyScore(finding, T_6_9) => level = "warn"
        /\ OnlyScore(finding, T_4_0) => level = "warn"
        /\ OnlyScore(finding, T_3_9) => level = NULL

\* a warn label together with a score >= 7.0 and no fatal label: rule 2 wins
C1_Witness ==
    /\ cpc = "classified"
    /\ LabelsCarried(finding) \cap {T_CRITICAL, T_HIGH} = {}
    /\ LabelsCarried(finding) \cap {T_MODERATE, T_LOW} # {}
    /\ MaxScoreAtLeast(finding, 70)
    /\ level = "fatal"

HasFatalSignal(f) ==
    \/ LabelsCarried(f) \cap {T_CRITICAL, T_HIGH} # {}
    \/ \E x \in FiniteScores(f) : x >= 70

\* the vulnerabilities of the palette that are warn-level taken alone
WarnLevelVulns == { v \in ClassifierVulns : v.id \in {"V04", "V05", "V11", "V12"} }

WarnLists == UNION { [1..k -> WarnLevelVulns] : k \in 0..MaxAdded }

Permuted(f) ==
    { [f EXCEPT !.vulnerabilities =
            [i \in 1..Len(f.vulnerabilities) |-> f.vulnerabilities[p[i]]]] :
        p \in Permutations(1..Len(f.vulnerabilities)) }

WithWarnAdded(f) ==
    { [f EXCEPT !.vulnerabilities = @ \o ws] : ws \in WarnLists }
    \cup { [f EXCEPT !.vulnerabilities = ws \o @] : ws \in WarnLists }

\* C2: a finding with a CRITICAL or HIGH label, or a score >= 7.0, is fatal
\* whatever warn-level signals accompany it, in every order of its
\* vulnerabilities and with any warn-level vulnerabilities added.
C2_FatalAlwaysWins ==
    (cpc = "classified" /\ HasFatalSignal(finding)) =>
        /\ level = "fatal"
        /\ \A g \in Permuted(finding) \cup WithWarnAdded(finding) :
              classifyPackageSeverity(g) = "fatal"

\* the fatal label sits on the second vulnerability, behind a warn-level one
C2_Witness ==
    /\ cpc = "classified"
    /\ Len(finding.vulnerabilities) = 2
    /\ finding.vulnerabilities[1] \in WarnLevelVulns
    /\ CarriesLabel(finding.vulnerabilities[2], T_CRITICAL)
    /\ level = "fatal"

CanonicalLabels == FATAL_LABELS \cup WARN_LABELS

\* a label that is not canonical itself but differs from one only in case
IsCaseVariant(t) == t \notin CanonicalLabels /\ ToUpperCase(t) \in CanonicalLabels

CaseVariantsCarried(f) == { t \in LabelsCarried(f) : IsCaseVariant(t) }

\* C5 as stated: labels are matched whatever their letter case
C5_CaseInsensitiveLabels ==
    cpc = "classified" =>
        /\ (\E t \in LabelsCarried(finding) : ToUpperCase(t) \in {T_CRITICAL, T_HIGH})
              => level = "fatal"
        /\ ( /\ ~HasFatalSignal(finding)
             /\ \A t \in LabelsCarried(finding) : ToUpperCase(t) \notin {T_CRITICAL, T_HIGH}
             /\ \E t \in LabelsCarried(finding) : ToUpperCase(t) \in {T_MODERATE, T_LOW} )
              => level = "warn"

StripLabel(d) ==
    IF IsSome(d) /\ IsSome(Get(d).severity) /\ IsCaseVariant(Get(Get(d).severity))
    THEN Some([severity |-> Some(T_UNKNOWN)])
    ELSE d

\* the finding with every case-variant label replaced by an unknown label
WithoutCaseVariants(f) ==
    [f EXCEPT !.vulnerabilities =
        [i \in 1..Len(f.vulnerabilities) |->
            [f.vulnerabilities[i] EXCEPT
                !.databaseSpecific = StripLabel(@),
                !.database_specific = StripLabel(@)]]]

\* C5 (amended): labels are matched exactly.  The upper-case labels CRITICAL
\* and HIGH make the finding fatal and MODERATE and LOW make it warn when no
\* fatal signal exists; a label that differs from them in letter case counts
\* like an unknown label and has no effect on the level.
C5_ExactLabels ==
    cpc = "classified" =>
        /\ LabelsCarried(finding) \cap {T_CRITICAL, T_HIGH} # {} => level = "fatal"
        /\ ( ~HasFatalSignal(finding)
             /\ LabelsCarried(finding) \cap {T_MODERATE, T_LOW} # {} )
              => level = "warn"
        /\ level = classifyPackageSeverity(WithoutCaseVariants(finding))
        /\ ( CaseVariantsCarried(finding) = LabelsCarried(finding)
             /\ FiniteScores(finding) = {} ) => level = NULL

\* a finding whose only label is a lower-case "high": it is not fatal
C5_Witness ==
    /\ cpc = "classified"
    /\ LabelsCarried(finding) = {T_high}
    /\ FiniteScores(finding) = {}
    /\ level = NULL

UnparseableTexts ==
    { None, Some(T_empty), Some(T_CVSS), Some(T_Infinity), Some(T_UNKNOWN) }

WithGroupScore(f, u) == [f EXCEPT !.groups = Some(Append(GroupsOf(f), Group(u)))]

WithVulnScore(f, i, u) ==
    [f EXCEPT !.vulnerabilities[i].severity =
        Some(Append(Get(@), [type |-> "CVSS_V3", score |-> u]))]

\* C6: a missing or unparseable score is absent from the maximum, never a
\* number: a finding without labels whose scores are all unparseable is
\* null, and adding an unparseable score changes neither the maximum nor the
\* level of any finding.
C6_UnparseableIsAbsent ==
    cpc = "classified" =>
        /\ ( LabelsCarried(finding) = {} /\ ScoreTexts(finding) \subseteq UnparseableTexts )
              => (level = NULL /\ findMaxNumericSeverity(finding) = NoNumber)
        /\ \A u \in UnparseableTexts :
              /\ classifyPackageSeverity(WithGroupScore(finding, u)) = level
              /\ findMaxNumericSeverity(WithGroupScore(finding, u))
                    = findMaxNumericSeverity(finding)
              /\ \A i \in 1..Len(finding.vulnerabilities) :
                    /\ classifyPackageSeverity(WithVulnScore(finding, i, u)) = level
                    /\ findMaxNumericSeverity(WithVulnScore(finding, i, u))
                          = findMaxNumericSeverity(finding)

\* a finding scored 7.0 beside a CVSS vector string: the vector is skipped
C6_Witness ==
    /\ cpc = "classified"
    /\ LabelsCarried(finding) = {}
    /\ Some(T_CVSS) \in ScoreTexts(finding)
    /\ Some(T_7_0) \in ScoreTexts(finding)
    /\ level = "fatal"

----------------------------------------------------------------------------
(* src/app/securityService.ts: the advisory builder *)

\* a selectReferenceUrl that takes the first reference whatever its type
selectReferenceUrl_FirstReference(references) ==
    IF Len(references) > 0 THEN references[1].url ELSE NULL

selectReferenceUrl(references) ==
    LET advisoryRefs == SelectSeq(references, LAMBDA ref : ref.type = "ADVISORY")
        webRefs == SelectSeq(references, LAMBDA ref : ref.type = "WEB")
    IN  IF Len(advisoryRefs) > 0 THEN advisoryRefs[1].url
        ELSE IF Len(webRefs) > 0 THEN webRefs[1].url
        ELSE IF Len(references) > 0 THEN references[1].url
        ELSE NULL

\* a selectPrimaryVulnerability that takes the last vulnerability
selectPrimaryVulnerability_Last(f) ==
    IF Len(f.vulnerabilities) = 0 THEN None
    ELSE Some(f.vulnerabilities[Len(f.vulnerabilities)])

selectPrimaryVulnerability(f) ==
    IF Len(f.vulnerabilities) = 0 THEN None ELSE Some(f.vulnerabilities[1])

\* primary.references ?? []
ReferencesOrEmpty(v) == IF IsSome(v.references) THEN Get(v.references) ELSE <<>>

\* primary?.summary ?? primary?.details ?? null
DescriptionOf(primary) ==
    IF ~IsSome(primary) THEN NULL
    ELSE IF Get(primary).summary # UNDEFINED THEN Get(primary).summary
    ELSE IF Get(primary).details # UNDEFINED THEN Get(primary).details
    ELSE NULL

\* the object pushed at securityService.ts:130-135
AdvisoryFor(f, lvl) ==
    LET primary == selectPrimaryVulnerability(f)
    IN  [level |-> lvl,
         package |-> f.package.name,
         url |-> IF IsSome(primary)
                 THEN selectReferenceUrl(ReferencesOrEmpty(Get(primary)))
                 ELSE NULL,
         description |-> DescriptionOf(primary)]

Returned(as) == [threw |-> FALSE, advisories |-> as]
Threw == [threw |-> TRUE, advisories |-> <<>>]

\* dependencies.classifySeverity, wired to classifyPackageSeverity by
\* createScanner (scanner.ts:267); buildAdvisories is only ever called with it
classifySeverity(f) == classifyPackageSeverity(f)

RECURSIVE PackagesLoop(_, _, _)
RECURSIVE ResultsLoop(_, _)

\* the body of the inner loop once the finding f is classified as lvl
\* (securityService.ts:126-135): a throw of the classifier leaves the
\* builder, a null level is skipped, any other level pushes an advisory
AfterClassify(f, lvl, packages, results, acc) ==
    IF lvl = THROWN THEN Threw
    ELSE IF lvl = NULL THEN PackagesLoop(packages, results, acc)
    ELSE PackagesLoop(packages, results, Append(acc, AdvisoryFor(f, lvl)))

\* the inner loop: for (const finding of result.packages); results are the
\* results the outer loop still has to visit once the packages are done
PackagesLoop(packages, results, acc) ==
    IF packages = <<>> THEN ResultsLoop(results, acc)
    ELSE AfterClassify(Head(packages), classifySeverity(Head(packages)),
                       Tail(packages), results, acc)

\* the outer loop: for (const result of body.results)
ResultsLoop(results, acc) ==
    IF results = <<>> THEN Returned(acc)
    ELSE PackagesLoop(Head(results).packages, Tail(results), acc)

\* every finding of the body, results in order, packages in order
AllFindings(b) == Flatten(SeqMap(LAMBDA r : r.packages, b.results))

\* a buildAdvisories that emits an advisory for the null level too
buildAdvisories_KeepsNull(b) ==
    LET fs == AllFindings(b)
    IN  IF \E i \in 1..Len(fs) : classifySeverity(fs[i]) = THROWN THEN Threw
        ELSE Returned([i \in 1..Len(fs) |-> AdvisoryFor(fs[i], classifySeverity(fs[i]))])

buildAdvisories(b) == ResultsLoop(b.results, <<>>)

----------------------------------------------------------------------------
(* src/boot/scanner.ts: the policy transform *)

Escalate(a) == IF a.level = "warn" THEN [a EXCEPT !.level = "fatal"] ELSE a
Downgrade(a) == IF a.level = "fatal" THEN [a EXCEPT !.level = "warn"] ELSE a

\* an applyPolicy that downgrades before it escalates
applyPolicy_DowngradeFirst(as, pol) ==
    IF ~IsSome(pol) THEN as
    ELSE LET downgraded == IF Get(pol).allowUnsafe
                           THEN SeqMap(Downgrade, as) ELSE as
         IN  IF Get(pol).blockMinLevel = "warn" THEN SeqMap(Escalate, downgraded)
             ELSE downgraded

\* one pass that decides both steps from the level the advisory came in with
SinglePass(a, pol) ==
    IF a.level = "warn" /\ pol.blockMinLevel = "warn" THEN [a EXCEPT !.level = "fatal"]
    ELSE IF a.level = "fatal" /\ pol.allowUnsafe THEN [a EXCEPT !.level = "warn"]
    ELSE a

applyPolicy_SinglePass(as, pol) ==
    IF ~IsSome(pol) THEN as
    ELSE [i \in 1..Len(as) |-> SinglePass(as[i], Get(pol))]

\* an applyPolicy whose rewritten advisories lose their description
applyPolicy_DropsDescription(as, pol) ==
    IF ~IsSome(pol) THEN as
    ELSE [i \in 1..Len(as) |->
            IF Downgrade(Escalate(as[i])) = as[i] THEN as[i]
            ELSE [Downgrade(Escalate(as[i])) EXCEPT !.description = NULL]]

\* an applyPolicy without the escalation step
applyPolicy_NoEscalation(as, pol) ==
    IF ~IsSome(pol) THEN as
    ELSE IF Get(pol).allowUnsafe THEN SeqMap(Downgrade, as) ELSE as

applyPolicy(as, pol) ==
    IF ~IsSome(pol) THEN as
    ELSE LET escalated == IF Get(pol).blockMinLevel = "warn"
                          THEN SeqMap(Escalate, as) ELSE as
         IN  IF Get(pol).allowUnsafe THEN SeqMap(Downgrade, escalated)
             ELSE escalated

----------------------------------------------------------------------------
(* Findings the OSV scanner port may deliver.  Vulnerability documents are  *)
(* JSON taken from the scanner as is (osvScannerApi.ts:300), so a document  *)
(* may lack any property, "severity" included.                              *)

Ref(type, url) == [type |-> type, url |-> url]

BVuln(id, summary, details, refs, ds, sev) ==
    [id |-> id, summary |-> summary, details |-> details, severity |-> sev,
     references |-> refs, databaseSpecific |-> ds, database_specific |-> None]

U_GHSA == "https://github.com/advisories/GHSA-mh6f-8j2x-4483"

F_EventStream ==
    Finding("event-stream",
        << BVuln("GHSA-mh6f-8j2x-4483", "Critical severity vulnerability", "long text",
                 Some(<<Ref("ADVISORY", U_GHSA), Ref("ADVISORY", "https://adv/2")>>),
                 Label(T_CRITICAL), Some(<<>>)) >>, None)

F_Moderate ==
    Finding("moderate-pkg",
        << BVuln("GHSA-2", UNDEFINED, "details only",
                 Some(<<Ref("WEB", "https://web/1"), Ref("PACKAGE", "https://pkg/1"),
                        Ref("ADVISORY", "https://adv/3")>>),
                 Label(T_MODERATE), Some(<<>>)) >>, None)

F_LaterFatal ==
    Finding("later-fatal",
        << BVuln("OSV-1", UNDEFINED, UNDEFINED, None, None, Some(<<>>)),
           BVuln("GHSA-3", "high issue", UNDEFINED,
                 Some(<<Ref("ADVISORY", "https://adv/4")>>),
                 Label(T_HIGH), Some(<<>>)) >>, None)

F_Unscored ==
    Finding("unscored",
        << BVuln("OSV-2", "no signal", UNDEFINED,
                 Some(<<Ref("ADVISORY", "https://adv/5")>>), None,
                 Some(<<Score(T_CVSS)>>)) >>, None)

F_GroupOnly == Finding("group-only", <<>>, Some(<<Group(Some(T_8_1))>>))

F_Low ==
    Finding("low-pkg",
        << BVuln("GHSA-4", "", "unused details",
                 Some(<<Ref("PACKAGE", "https://pkg/2"), Ref("WEB", "https://web/2"),
                        Ref("WEB", "https://web/3")>>),
                 Label(T_LOW), Some(<<>>)) >>, None)

F_Scored ==
    Finding("scored",
        << BVuln("OSV-3", "scored 4.0", UNDEFINED,
                 Some(<<Ref("PACKAGE", "https://pkg/3"), Ref("REPORT", "https://rep/3")>>),
                 None, Some(<<Score(T_4_0)>>)),
           BVuln("OSV-4", "second", "second details", Some(<<>>), None, Some(<<>>)) >>,
        None)

F_NoRefs ==
    Finding("no-refs",
        << BVuln("OSV-5", UNDEFINED, UNDEFINED, Some(<<>>), None, Some(<<Score(T_7_0)>>)),
           BVuln("OSV-6", "later summary", UNDEFINED,
                 Some(<<Ref("ADVISORY", "https://adv/6")>>), None, Some(<<>>)) >>, None)

\* a document without the "severity" property
F_NoSeverity ==
    Finding("no-severity",
        << BVuln("MAL-1", "malicious package", UNDEFINED, None, None, None) >>, None)

BuilderFindings ==
    { F_EventStream, F_Moderate, F_LaterFatal, F_Unscored, F_GroupOnly, F_Low,
      F_Scored, F_NoRefs, F_NoSeverity }

PolicyConfig(blockMinLevel, allowUnsafe) ==
    Some([blockMinLevel |-> blockMinLevel, allowUnsafe |-> allowUnsafe])

\* runtimeConfig.policy is optional (scannerConfigPort.ts:44)
PolicyConfigs ==
    {None} \cup { PolicyConfig(b, u) : b \in {"fatal", "warn"}, u \in BOOLEAN }

----------------------------------------------------------------------------
(* The service pipeline: the OSV scanner port delivers a results body,      *)
(* executeScan builds the advisories, scan applies the policy.              *)

RECURSIVE CountFindings(_)
CountFindings(results) ==
    IF results = <<>> THEN 0
    ELSE Len(Head(results).packages) + CountFindings(Tail(results))

Init ==
    /\ body = [results |-> <<>>]
    /\ advisories = <<>>
    /\ policy \in PolicyConfigs
    /\ final = <<>>
    /\ pc = "scanning"
    /\ finding = IdleFinding
    /\ level = UNDEFINED
    /\ cpc = "idle"
    /\ NoScan
    /\ NoAdapters

\* the scanner port starts the result of another source
ScannerAddsResult ==
    /\ pc = "scanning"
    /\ Len(body.results) < MaxResults
    /\ body' = [results |-> Append(body.results,
                    [source |-> [path |-> "sbom", type |-> "sbom"], packages |-> <<>>])]
    /\ UNCHANGED <<finding, level, cpc, advisories, policy, final, pc>>
    /\ UNCHANGED <<scanVars, adapterVars>>

\* the scanner port reports a finding under the current source
ScannerAddsFinding ==
    /\ pc = "scanning"
    /\ Len(body.results) > 0
    /\ CountFindings(body.results) < MaxFindings
    /\ \E f \in BuilderFindings :
          body' = [results |-> [body.results EXCEPT
                        ![Len(body.results)].packages = Append(@, f)]]
    /\ UNCHANGED <<finding, level, cpc, advisories, policy, final, pc>>
    /\ UNCHANGED <<scanVars, adapterVars>>

\* executeScan, after the scanner port answered ok (securityService.ts:92-97)
BuildAdvisories ==
    /\ pc = "scanning"
    /\ \E built \in {buildAdvisories(body)} :
          IF built.threw
          THEN /\ pc' = "threw"
               /\ UNCHANGED advisories
          ELSE /\ pc' = "built"
               /\ advisories' = built.advisories
    /\ UNCHANGED <<finding, level, cpc, body, policy, final>>
    /\ UNCHANGED <<scanVars, adapterVars>>

\* scan applies the policy to the advisories of the service (scanner.ts:455)
ApplyPolicy ==
    /\ pc = "built"
    /\ final' = applyPolicy(advisories, policy)
    /\ pc' = "done"
    /\ UNCHANGED <<finding, level, cpc, body, advisories, policy>>
    /\ UNCHANGED <<scanVars, adapterVars>>

Next ==
    \/ ScannerAddsResult
    \/ ScannerAddsFinding
    \/ BuildAdvisories
    \/ ApplyPolicy

Spec == Init /\ [][Next]_vars

----------------------------------------------------------------------------
(* Vocabulary of the builder and policy claims *)

RECURSIVE FindingsInOrder(_)
FindingsInOrder(results) ==
    IF results = <<>> THEN <<>>
    ELSE Head(results).packages \o FindingsInOrder(Tail(results))

IsAdvised(f) == classifyPackageSeverity(f) # NULL

\* the findings that get an advisory, in input order
Advised(b) == SelectSeq(FindingsInOrder(b.results), IsAdvised)

BuildReturned == pc \in {"built", "done"}

\* C3: a finding with an empty vulnerabilities list never yields an
\* advisory, whatever groups[].maxSeverity it carries: the classifier
\* returns null for it and buildAdvisories emits nothing for its package.
C3_EmptyFindingNoAdvisory ==
    BuildReturned =>
        \A i \in 1..Len(FindingsInOrder(body.results)) :
            LET f == FindingsInOrder(body.results)[i]
            IN  f.vulnerabilities = <<>> =>
                    /\ classifyPackageSeverity(f) = NULL
                    /\ \A k \in 1..Len(advisories) : advisories[k].package # f.package.name

\* C4: classifyPackageSeverity and buildAdvisories never throw, whatever
\* fields a vulnerability record lacks.
C4_NeverThrows == pc # "threw"

\* C7: buildAdvisories returns one advisory per finding classified non-null,
\* none for a finding classified null, in input order (results in order,
\* packages in order); level is the classifier's result, package the
\* finding's package name; no findings give the empty list.
C7_OneAdvisoryPerAdvisedFinding ==
    BuildReturned =>
        LET kept == Advised(body)
        IN  /\ Len(advisories) = Len(kept)
            /\ \A i \in 1..Len(kept) :
                  /\ advisories[i].level = classifyPackageSeverity(kept[i])
                  /\ advisories[i].level \in {"fatal", "warn"}
                  /\ advisories[i].package = kept[i].package.name
            /\ FindingsInOrder(body.results) = <<>> => advisories = <<>>

\* two results, a null-level finding between two advised ones
C7_Witness ==
    /\ BuildReturned
    /\ Len(body.results) = 2
    /\ body.results[1].packages = <<F_Moderate, F_Unscored>>
    /\ body.results[2].packages = <<F_EventStream>>
    /\ Len(advisories) = 2
    /\ advisories[1].package = "moderate-pkg"
    /\ advisories[2].package = "event-stream"

FirstVulnerability(f) == f.vulnerabilities[1]

UrlsOf(v) ==
    IF IsSome(v.references)
    THEN { Get(v.references)[i].url : i \in 1..Len(Get(v.references)) }
    ELSE {}

\* C8: description and url of an advisory come from the first vulnerability
\* of the finding only, also when a later one carries the fatal signal; the
\* description is its summary if present, else its details, else null.
C8_PrimaryIsFirstVulnerability ==
    BuildReturned =>
        \A i \in 1..Len(Advised(body)) :
            LET f == Advised(body)[i]
            IN  (i <= Len(advisories) /\ f.vulnerabilities # <<>>) =>
                    LET v == FirstVulnerability(f)
                    IN  /\ advisories[i].description =
                              (IF v.summary # UNDEFINED THEN v.summary
                               ELSE IF v.details # UNDEFINED THEN v.details
                               ELSE NULL)
                        /\ advisories[i].url \in UrlsOf(v) \cup {NULL}
                        /\ UrlsOf(v) = {} => advisories[i].url = NULL

\* the fatal signal sits on the second vulnerability; the first has neither
\* text nor references
C8_Witness ==
    /\ BuildReturned
    /\ FindingsInOrder(body.results) = <<F_LaterFatal>>
    /\ advisories = << [level |-> "fatal", package |-> "later-fatal",
                        url |-> NULL, description |-> NULL] >>

FirstOfType(refs, type) ==
    refs[CHOOSE i \in 1..Len(refs) :
            /\ refs[i].type = type
            /\ \A j \in 1..(i - 1) : refs[j].type # type]

HasType(refs, type) == \E i \in 1..Len(refs) : refs[i].type = type

\* C9: the url is the first ADVISORY reference of the primary vulnerability;
\* without one the first WEB reference; without one the first reference of
\* any type; without references null.
C9_UrlPriority ==
    BuildReturned =>
        \A i \in 1..Len(Advised(body)) :
            LET f == Advised(body)[i]
            IN  (i <= Len(advisories) /\ f.vulnerabilities # <<>>) =>
                    LET v == FirstVulnerability(f)
                        refs == IF IsSome(v.references) THEN Get(v.references) ELSE <<>>
                    IN  advisories[i].url =
                            (IF HasType(refs, "ADVISORY") THEN FirstOfType(refs, "ADVISORY").url
                             ELSE IF HasType(refs, "WEB") THEN FirstOfType(refs, "WEB").url
                             ELSE IF refs # <<>> THEN refs[1].url
                             ELSE NULL)

\* an ADVISORY reference listed after a WEB and a PACKAGE reference is taken,
\* and a WEB reference listed after a PACKAGE reference is taken
C9_Witness ==
    /\ BuildReturned
    /\ FindingsInOrder(body.results) = <<F_Moderate, F_Low>>
    /\ Len(advisories) = 2
    /\ advisories[1].url = "https://adv/3"
    /\ advisories[2].url = "https://web/2"

\* C10: with blockMinLevel = warn and allowUnsafe = false every advisory
\* applyPolicy returns is fatal (warn escalated, fatal kept); with
\* blockMinLevel = fatal and allowUnsafe = false every level is unchanged.
C10_Escalation ==
    pc = "done" =>
        /\ policy = PolicyConfig("warn", FALSE) =>
              /\ Len(final) = Len(advisories)
              /\ \A i \in 1..Len(final) : final[i].level = "fatal"
        /\ policy = PolicyConfig("fatal", FALSE) =>
              /\ Len(final) = Len(advisories)
              /\ \A i \in 1..Len(final) : final[i].level = advisories[i].level

\* a warn advisory and a fatal one, both returned at fatal
C10_Witness ==
    /\ pc = "done"
    /\ policy = PolicyConfig("warn", FALSE)
    /\ Len(advisories) = 2
    /\ advisories[1].level = "warn"
    /\ advisories[2].level = "fatal"
    /\ final[1].level = "fatal"
    /\ final[2].level = "fatal"

----------------------------------------------------------------------------
(* The order, idempotence and frame of the policy transform *)

AllowsUnsafe(pol) == IsSome(pol) /\ Get(pol).allowUnsafe

\* C11: the unsafe downgrade runs after the escalation: whenever
\* allowUnsafe is true every advisory applyPolicy returns is at warn,
\* whatever blockMinLevel is; one warn advisory under blockMinLevel = warn
\* and allowUnsafe = true ends at warn, not fatal.
C11_DowngradeAfterEscalation ==
    /\ pc = "done" /\ AllowsUnsafe(policy) =>
          /\ Len(final) = Len(advisories)
          /\ \A i \in 1..Len(final) : final[i].level = "warn"
    /\ BuildReturned =>
          \A i \in 1..Len(advisories) :
              advisories[i].level = "warn" =>
                  applyPolicy(<<advisories[i]>>, PolicyConfig("warn", TRUE))[1].level
                      = "warn"

\* one warn advisory, blockMinLevel = warn, allowUnsafe = true: returned at warn
C11_Witness ==
    /\ pc = "done"
    /\ policy = PolicyConfig("warn", TRUE)
    /\ Len(advisories) = 1
    /\ advisories[1].level = "warn"
    /\ final[1].level = "warn"

\* C12: applyPolicy is idempotent: for every advisory list and each of the
\* four PolicyConfigs, applying it to its own result changes nothing.
C12_Idempotent ==
    /\ BuildReturned =>
          \A pol \in PolicyConfigs :
              applyPolicy(applyPolicy(advisories, pol), pol) = applyPolicy(advisories, pol)
    /\ pc = "done" => applyPolicy(final, policy) = final

\* a list with both levels went through a policy that rewrote a level
C12_Witness ==
    /\ pc = "done"
    /\ IsSome(policy)
    /\ \E i, j \in 1..Len(advisories) :
          /\ advisories[i].level = "warn"
          /\ advisories[j].level = "fatal"
    /\ final # advisories
    /\ applyPolicy(final, policy) = final

SameButLevel(a, b) ==
    /\ a.package = b.package
    /\ a.url = b.url
    /\ a.description = b.description

OnlyLevelChanged ==
    pc = "done" =>
        /\ Len(final) = Len(advisories)
        /\ \A i \in 1..Len(final) : SameButLevel(final[i], advisories[i])
        /\ ~IsSome(policy) => final = advisories

\* C13: applyPolicy changes nothing but level: same length and order, every
\* advisory keeps package, url and description, without a PolicyConfig the
\* output equals the input, and the step that applies the policy leaves the
\* list it was given, and every advisory in it, as they were.
C13_OnlyLevelChanges ==
    /\ []OnlyLevelChanged
    /\ [][pc' = "done" => advisories' = advisories]_vars

\* a rewritten advisory that carries a description and a url
C13_Witness ==
    /\ pc = "done"
    /\ IsSome(policy)
    /\ \E i \in 1..Len(final) :
          /\ final[i].level # advisories[i].level
          /\ final[i].description # NULL
          /\ final[i].url # NULL
          /\ final[i].description = advisories[i].description

----------------------------------------------------------------------------
(* Results, coordinates and the name@version keys                           *)

Ok(data) == [ok |-> TRUE, data |-> data]
Err(error) == [ok |-> FALSE, error |-> error]

DEPENDENCY_ECOSYSTEM_NPM == "npm"

Coordinate(name, version) ==
    [ecosystem |-> DEPENDENCY_ECOSYSTEM_NPM, name |-> name, version |-> version]

UndefinedText == <<"u", "n", "d", "e", "f", "i", "n", "e", "d">>

\* `${x}` for a property that is a string or undefined
TemplateText(o) == IF IsSome(o) THEN Get(o) ELSE UndefinedText

\* a text as the string that messages are built from
RECURSIVE Str(_)
Str(t) == IF t = <<>> THEN "" ELSE Head(t) \o Str(Tail(t))

\* `${c.name}@${c.version}` of a coordinate
CoordinateKey(c) == c.name \o <<"@">> \o c.version

\* `${p.name}@${p.version}` of a provided package that is an object
PackageKey(p) == TemplateText(p.name) \o <<"@">> \o TemplateText(p.version)

----------------------------------------------------------------------------
(* src/foundation/bunLockParser.ts                                          *)
(* A lock document is the JSON value readLock delivers: record says whether *)
(* it is an object at all, packages holds Object.values of its "packages"   *)
(* record when that is an object.  An entry is the text entry[0] when the   *)
(* entry is a non-empty array whose first element is a string, else absent. *)

PARSE_ERROR_INVALID_DOCUMENT == "invalid-document"
PARSE_ERROR_MISSING_PACKAGES == "missing-packages"

\* 1-based spec.lastIndexOf(c); 0 when c does not occur
LastIndexOf(t, c) ==
    IF \E i \in 1..Len(t) : t[i] = c
    THEN CHOOSE i \in 1..Len(t) : t[i] = c /\ \A j \in (i + 1)..Len(t) : t[j] # c
    ELSE 0

SplitAt(spec, atIndex) ==
    IF atIndex <= 1 \/ atIndex = Len(spec) THEN None
    ELSE Some(Coordinate(SubSeq(spec, 1, atIndex - 1),
                         SubSeq(spec, atIndex + 1, Len(spec))))

toCoordinate(spec) == SplitAt(spec, LastIndexOf(spec, "@"))

\* the loop over Object.values(packagesValue)
RECURSIVE EntriesLoop(_, _)
EntriesLoop(entries, coordinates) ==
    IF entries = <<>> THEN coordinates
    ELSE IF ~IsSome(Head(entries)) THEN EntriesLoop(Tail(entries), coordinates)
    ELSE IF Get(Head(entries)) = <<>> THEN EntriesLoop(Tail(entries), coordinates)
    ELSE IF ~IsSome(toCoordinate(Get(Head(entries))))
        THEN EntriesLoop(Tail(entries), coordinates)
    ELSE EntriesLoop(Tail(entries),
                     Append(coordinates, Get(toCoordinate(Get(Head(entries))))))

parseBunLock(document) ==
    IF ~document.record THEN Err(PARSE_ERROR_INVALID_DOCUMENT)
    ELSE IF ~IsSome(document.packages) THEN Err(PARSE_ERROR_MISSING_PACKAGES)
    ELSE Ok(EntriesLoop(Get(document.packages), <<>>))

----------------------------------------------------------------------------
(* src/foundation/packagesToCoordinates.ts                                  *)
(* A provided package is absent (a null entry) or an object whose name and  *)
(* version are each a text or undefined.                                    *)

Package(name, version) == Some([name |-> name, version |-> version])
NullPackage == None

\* pkg?.name, pkg?.version
NameOf(pkg) == IF IsSome(pkg) THEN Get(pkg).name ELSE None
VersionOf(pkg) == IF IsSome(pkg) THEN Get(pkg).version ELSE None

\* typeof x === "string" && x.length > 0
IsNonEmptyString(o) == IsSome(o) /\ Get(o) # <<>>

InvalidPackageMetadata(message) ==
    Err([type |-> "invalid-package-metadata", message |-> message])

RECURSIVE ConversionLoop(_, _, _)
ConversionLoop(pkgs, seen, coordinates) ==
    IF pkgs = <<>> THEN Ok(coordinates)
    ELSE IF ~IsNonEmptyString(NameOf(Head(pkgs)))
        THEN InvalidPackageMetadata("Package missing name field")
    ELSE IF ~IsNonEmptyString(VersionOf(Head(pkgs)))
        THEN InvalidPackageMetadata(
                "Package " \o Str(Get(NameOf(Head(pkgs)))) \o " missing version field")
    ELSE IF PackageKey(Get(Head(pkgs))) \in seen
        THEN ConversionLoop(Tail(pkgs), seen, coordinates)
    ELSE ConversionLoop(Tail(pkgs), seen \cup {PackageKey(Get(Head(pkgs)))},
            Append(coordinates,
                   Coordinate(Get(NameOf(Head(pkgs))), Get(VersionOf(Head(pkgs))))))

\* a conversion that pushes a coordinate for every package, seen or not
packagesToCoordinates_KeepsDuplicates(pkgs) ==
    IF \E i \in 1..Len(pkgs) :
            ~IsNonEmptyString(NameOf(pkgs[i])) \/ ~IsNonEmptyString(VersionOf(pkgs[i]))
    THEN ConversionLoop(pkgs, {}, <<>>)
    ELSE Ok([i \in 1..Len(pkgs) |->
                Coordinate(Get(NameOf(pkgs[i])), Get(VersionOf(pkgs[i])))])

packagesToCoordinates(pkgs) ==
    IF Len(pkgs) = 0 THEN Ok(<<>>) ELSE ConversionLoop(pkgs, {}, <<>>)

----------------------------------------------------------------------------
(* src/boot/scanner.ts: failure advisories and descriptions                 *)

buildFatalAdvisory(message) ==
    [level |-> ADVISORY_LEVEL_FATAL, package |-> "bun.lock", url |-> NULL,
     description |-> message]

buildManifestFatalAdvisory(message) ==
    [level |-> ADVISORY_LEVEL_FATAL, package |-> "package.json", url |-> NULL,
     description |-> message]

\* the object assigned to staleWarn (scanner.ts:422-428)
StaleLockAdvisory ==
    [level |-> "warn", package |-> "bun.lock", url |-> NULL,
     description |->
        "Lock contents differ from provided package list (potentially stale lock)"]

\* an error carries the one property its type has: option, or value
describeCliArgsError(error) ==
    CASE error.type = "unknown-option" -> "unknown option " \o error.option
      [] error.type = "missing-value" -> "missing value for " \o error.option
      [] error.type = "invalid-mode" -> "invalid mode '" \o error.value \o "'"
      [] error.type = "invalid-batch-size" -> "invalid batch size '" \o error.value \o "'"

describeOsvScannerError(error) ==
    IF error.type = "invalid-status"
    THEN (IF error.body # "" THEN "HTTP " \o error.status \o ": " \o error.body
          ELSE "HTTP " \o error.status)
    ELSE error.message

describeServiceError(error) ==
    CASE error.type = "lock-parse-error" -> "Failed to parse bun.lock: " \o error.error
      [] error.type = "sbom-serialization-error" ->
            "Failed to serialize SBOM: " \o error.message
      [] error.type = "osv-scan-error" ->
            "OSV scanner failed: " \o describeOsvScannerError(error.error)

describeResolveDependenciesError(error) == error.message

\* lockSet.size !== pkgSet.size, else the loop over pkgSet
SetsMismatch(lockSet, pkgSet) ==
    IF Cardinality(lockSet) # Cardinality(pkgSet) THEN TRUE
    ELSE \E k \in pkgSet : k \notin lockSet

\* new Set(parsedLock.data.map((c) => `${c.name}@${c.version}`))
LockSet(coordinates) == { CoordinateKey(coordinates[i]) : i \in 1..Len(coordinates) }

\* new Set(packages.map((p) => `${p.name}@${p.version}`)); reading p.name
\* of a null entry throws a TypeError
PackagesThrow(pkgs) == \E i \in 1..Len(pkgs) : ~IsSome(pkgs[i])
PkgSet(pkgs) == { PackageKey(Get(pkgs[i])) : i \in 1..Len(pkgs) }

\* a withStale that appends the warning whether or not data is empty
WithStale_Always(data, stale) ==
    IF IsSome(stale) THEN Append(data, Get(stale)) ELSE data

\* staleWarn && advisoriesResult.data.length > 0 ? [...data, staleWarn] : data
WithStale(data, stale) ==
    IF IsSome(stale) /\ Len(data) > 0 THEN Append(data, Get(stale)) ELSE data

----------------------------------------------------------------------------
(* src/app/securityService.ts: what the service answers to one call         *)

\* a call of the service: scan(lock) or scanCoordinates(coordinates)
ScanOfLock(document) == [via |-> "scan", lock |-> document]
ScanOfCoordinates(coordinates) == [via |-> "scanCoordinates", coordinates |-> coordinates]

Answered(r) == [threw |-> FALSE, result |-> r]
AnswerThrew == [threw |-> TRUE]

\* executeScan once the port delivered a body: buildAdvisories may throw
AnswerOf(built) ==
    IF built.threw THEN AnswerThrew ELSE Answered(Ok(built.advisories))

BuiltFrom(b) == AnswerOf(buildAdvisories(b))

\* what one run of executeScan meets: the serializer throws, the OSV scanner
\* port answers an error, or it answers a results body
SerializeThrows(message) == [kind |-> "serialize-throws", message |-> message]
OsvError(error) == [kind |-> "osv-error", error |-> error]
OsvOk(b) == [kind |-> "osv-ok", body |-> b]

executeScan(outcome) ==
    CASE outcome.kind = "serialize-throws" ->
            Answered(Err([type |-> "sbom-serialization-error",
                          message |-> outcome.message]))
      [] outcome.kind = "osv-error" ->
            Answered(Err([type |-> "osv-scan-error", error |-> outcome.error]))
      [] outcome.kind = "osv-ok" -> BuiltFrom(outcome.body)

\* scan(lock) parses the lock first; scanCoordinates goes straight to executeScan
ReachesPort(call) ==
    IF call.via = "scanCoordinates" THEN TRUE ELSE parseBunLock(call.lock).ok

serviceAnswer(call, outcome) ==
    IF ReachesPort(call) THEN executeScan(outcome)
    ELSE Answered(Err([type |-> "lock-parse-error",
                       error |-> parseBunLock(call.lock).error]))

----------------------------------------------------------------------------
(* src/boot/scanner.ts: scan, as the decision taken at each await           *)

\* scan returns list; applied tells whether list came out of applyPolicy
ReturnList(list) == [to |-> "returned", list |-> list, applied |-> FALSE]
ReturnFinal(list) == [to |-> "returned", list |-> list, applied |-> TRUE]
AwaitResolve == [to |-> "resolve"]
AwaitService(r, call, used) ==
    [to |-> "service", route |-> r, call |-> call, used |-> used]
Rejects == [to |-> "threw"]

\* packagesToCoordinates(packages), then scanCoordinates (scanner.ts:333-342, 408-419)
ScanConverted(conversion, r, used) ==
    IF ~conversion.ok
    THEN ReturnList(<<buildManifestFatalAdvisory(
                        "Invalid package metadata: " \o conversion.error.message)>>)
    ELSE AwaitService(r, ScanOfCoordinates(conversion.data), used)

\* the try block up to its await (scanner.ts:389-436); a throw inside it
\* lands in the catch, which scans the lock (437-440)
CompareWithLock(document, pkgs) ==
    IF ~parseBunLock(document).ok THEN AwaitService("lock", ScanOfLock(document), FALSE)
    ELSE IF PackagesThrow(pkgs)
        THEN AwaitService("fallback", ScanOfLock(document), FALSE)
    ELSE IF SetsMismatch(LockSet(parseBunLock(document).data), PkgSet(pkgs))
        THEN ScanConverted(packagesToCoordinates(pkgs), "packages", TRUE)
    ELSE AwaitService("lock", ScanOfLock(document), FALSE)

\* scan from the answer of readLock to its next await or return (298-441)
AfterReadLock(lr, pkgs, useLegacy) ==
    IF lr.ok THEN CompareWithLock(lr.data, pkgs)
    ELSE IF lr.error.type = "lock-not-found"
        THEN (IF useLegacy THEN AwaitResolve
              ELSE ScanConverted(packagesToCoordinates(pkgs), "absent", FALSE))
    ELSE ReturnList(<<buildFatalAdvisory(
                        "Failed to read bun.lock: " \o lr.error.message)>>)

\* the legacy branch after resolveDependencies answered (303-314)
AfterResolve(resolved) ==
    IF ~resolved.ok
    THEN ReturnList(<<buildManifestFatalAdvisory(
                        "Failed to resolve dependencies: "
                            \o describeResolveDependenciesError(resolved.error))>>)
    ELSE AwaitService("legacy", ScanOfCoordinates(resolved.data), FALSE)

\* the legacy branch after the service answered (315-323): no applyPolicy
AfterLegacyScan(r) ==
    IF ~r.ok THEN ReturnList(<<buildManifestFatalAdvisory(describeServiceError(r.error))>>)
    ELSE ReturnList(r.data)

\* the lock-absent branch after the service answered (343-369)
AfterDirectScan(r, pkgs, coordinates, pol) ==
    IF ~r.ok THEN ReturnList(<<buildManifestFatalAdvisory(describeServiceError(r.error))>>)
    ELSE IF Len(pkgs) > 0 /\ Len(coordinates) = 0
        THEN ReturnList(<<buildManifestFatalAdvisory(
                "Internal error: no coordinates derived from non-empty package list")>>)
    ELSE ReturnFinal(applyPolicy(r.data, pol))

\* a lock-present branch that appends the warning after the policy ran
AfterLockScan_StaleAfterPolicy(r, stale, pol) ==
    IF ~r.ok THEN ReturnList(<<buildFatalAdvisory(describeServiceError(r.error))>>)
    ELSE ReturnFinal(WithStale(applyPolicy(r.data, pol), stale))

\* a lock-present branch that hands the failure advisory to the policy too
AfterLockScan_PolicyOnFailure(r, stale, pol) ==
    IF ~r.ok
    THEN ReturnFinal(applyPolicy(<<buildFatalAdvisory(describeServiceError(r.error))>>, pol))
    ELSE ReturnFinal(applyPolicy(WithStale(r.data, stale), pol))

\* the lock-present branch once advisoriesResult is assigned (443-465)
AfterLockScan(r, stale, pol) ==
    IF ~r.ok THEN ReturnList(<<buildFatalAdvisory(describeServiceError(r.error))>>)
    ELSE ReturnFinal(applyPolicy(WithStale(r.data, stale), pol))

\* staleWarn after an answer: assigned once the await of the packages scan
\* has returned (421-429), left alone when that await threw or on other routes
StaleWarnFor(r, threw, enabled, current) ==
    IF r = "packages" /\ ~threw
    THEN (IF enabled THEN Some(StaleLockAdvisory) ELSE None)
    ELSE current

\* scan from an answer of the security service to its next await or return
AfterService(r, ans, call, document, pkgs, stale, used, pol) ==
    IF ans.threw
    THEN (IF r \in {"packages", "lock"}
          THEN AwaitService("fallback", ScanOfLock(document), used)
          ELSE Rejects)
    ELSE IF r = "legacy" THEN AfterLegacyScan(ans.result)
    ELSE IF r = "absent"
        THEN AfterDirectScan(ans.result, pkgs, call.coordinates, pol)
    ELSE AfterLockScan(ans.result, stale, pol)

----------------------------------------------------------------------------
(* What the scanner is created with, called with and surrounded by          *)

CliArgsErrors ==
    { [type |-> "unknown-option", option |-> "--unknown"],
      [type |-> "missing-value", option |-> "--mode"],
      [type |-> "invalid-mode", value |-> "grpc"],
      [type |-> "invalid-batch-size", value |-> "0"] }

P_a1 == Package(Some(<<"a">>), Some(<<"1">>))
P_b2 == Package(Some(<<"b">>), Some(<<"2">>))
P_Nameless == Package(None, Some(<<"1">>))
P_NoVersion == Package(Some(<<"a">>), Some(<<>>))

ProvidedPackages == { P_a1, P_b2, P_Nameless, P_NoVersion, NullPackage }

RECURSIVE ListsUpTo(_, _)
ListsUpTo(S, n) ==
    IF n = 0 THEN { <<>> }
    ELSE ListsUpTo(S, n - 1)
            \cup { Append(q, x) : q \in { r \in ListsUpTo(S, n - 1) : Len(r) = n - 1 },
                                  x \in S }

\* scan({ packages }): a list, or no list at all
PackageArguments == {None} \cup { Some(q) : q \in ListsUpTo(ProvidedPackages, MaxPackages) }

LockDocument(entries) == [record |-> TRUE, packages |-> Some(entries)]
L_NotARecord == [record |-> FALSE, packages |-> None]
L_NoPackages == [record |-> TRUE, packages |-> None]

S_a1 == Some(<<"a", "@", "1">>)
S_a2 == Some(<<"a", "@", "2">>)
S_b2 == Some(<<"b", "@", "2">>)
S_undefined1 == Some(UndefinedText \o <<"@", "1">>)
\* an entry that is not an array of a string, as { version: "1.0.0" }
S_Object == None

LockDocuments ==
    { L_NotARecord, L_NoPackages, LockDocument(<<>>), LockDocument(<<S_a1>>),
      LockDocument(<<S_a2>>), LockDocument(<<S_b2, S_a1>>),
      LockDocument(<<S_a1, S_Object, S_a1>>), LockDocument(<<S_undefined1>>) }

LockReadResults ==
    { Err([type |-> "lock-not-found"]),
      Err([type |-> "lock-read-error", message |-> "EACCES: permission denied"]) }
        \cup { Ok(d) : d \in LockDocuments }

ResolveResults ==
    { Err([type |-> "manifest-read-error",
           message |-> "Failed to read node_modules"]),
      Err([type |-> "dependency-resolution-error",
           message |-> "No installed dependencies were found under node_modules"]),
      Ok(<<Coordinate(<<"a">>, <<"1">>)>>) }

OsvScannerErrors ==
    { [type |-> "network-error", message |-> "fetch failed"],
      [type |-> "invalid-status", status |-> "500", body |-> "upstream down"],
      [type |-> "invalid-status", status |-> "503", body |-> ""] }

BodyOf(findings) ==
    [results |-> << [source |-> [path |-> "sbom", type |-> "sbom"],
                     packages |-> findings] >>]

ScanBodies ==
    { [results |-> <<>>], BodyOf(<<F_Unscored>>), BodyOf(<<F_Moderate>>),
      BodyOf(<<F_EventStream, F_Low>>), BodyOf(<<F_NoSeverity>>) }

PortOutcomes ==
    { SerializeThrows("Converting circular structure to JSON") }
        \cup { OsvError(e) : e \in OsvScannerErrors }
        \cup { OsvOk(b) : b \in ScanBodies }

----------------------------------------------------------------------------
(* The scanner: createScanner, then one call of scan, step by step          *)

\* createScanner (scanner.ts:240-269): when parseArgs fails the runtime
\* configuration is createDefaultRuntimeConfig(), which has no policy
InitScan ==
    /\ finding = IdleFinding
    /\ level = UNDEFINED
    /\ cpc = "idle"
    /\ body = [results |-> <<>>]
    /\ advisories = <<>>
    /\ final = <<>>
    /\ pc = "idle"
    /\ \/ /\ cliArgsError \in { Some(e) : e \in CliArgsErrors }
          /\ policy = None
       \/ /\ cliArgsError = None
          /\ policy \in PolicyConfigs
    /\ providedPackages = None
    /\ spc = "created"
    /\ lockResult = None
    /\ fsFallback = None
    /\ staleLockWarn = None
    /\ route = "none"
    /\ staleWarn = None
    /\ usedPackagesInsteadOfLock = FALSE
    /\ submitted = <<>>
    /\ answers = <<>>
    /\ resolveCalls = 0
    /\ readLockCalls = 0
    /\ result = None
    /\ NoAdapters

\* scan moves on as decided: it returns, rejects, or awaits the next answer
Proceed(d) ==
    /\ spc' = d.to
    /\ result' = IF d.to = "returned" THEN Some(d.list) ELSE result
    /\ final' = IF d.to = "returned" /\ d.applied THEN d.list ELSE final
    /\ resolveCalls' = IF d.to = "resolve" THEN resolveCalls + 1 ELSE resolveCalls
    /\ route' = IF d.to = "service" THEN d.route
                ELSE IF d.to = "resolve" THEN "legacy" ELSE route
    /\ submitted' = IF d.to = "service" THEN Append(submitted, d.call) ELSE submitted
    /\ usedPackagesInsteadOfLock' =
            IF d.to = "service" THEN d.used ELSE usedPackagesInsteadOfLock

\* a scan that looks at the package list before it looks at cliArgsError
ScanCalled_EmptyListFirst ==
    /\ spc = "created"
    /\ \E pkgs \in PackageArguments :
          /\ providedPackages' = pkgs
          /\ IF ~IsSome(pkgs) \/ Len(Get(pkgs)) = 0
             THEN /\ result' = Some(<<>>)
                  /\ spc' = "returned"
                  /\ UNCHANGED readLockCalls
             ELSE IF IsSome(cliArgsError)
             THEN /\ result' = Some(<<buildFatalAdvisory(
                                        "Invalid scanner arguments: "
                                            \o describeCliArgsError(Get(cliArgsError)))>>)
                  /\ spc' = "returned"
                  /\ UNCHANGED readLockCalls
             ELSE /\ spc' = "readLock"
                  /\ readLockCalls' = readLockCalls + 1
                  /\ UNCHANGED result
    /\ UNCHANGED adapterVars
    /\ UNCHANGED <<serviceVars, cliArgsError, lockResult, fsFallback, staleLockWarn,
                   route, staleWarn, usedPackagesInsteadOfLock, submitted,
                   answers, resolveCalls>>

\* scan is called (scanner.ts:273-298): the argument checks, then readLock
ScanCalled ==
    /\ spc = "created"
    /\ \E pkgs \in PackageArguments :
          /\ providedPackages' = pkgs
          /\ IF IsSome(cliArgsError)
             THEN /\ result' = Some(<<buildFatalAdvisory(
                                        "Invalid scanner arguments: "
                                            \o describeCliArgsError(Get(cliArgsError)))>>)
                  /\ spc' = "returned"
                  /\ UNCHANGED readLockCalls
             ELSE IF ~IsSome(pkgs) \/ Len(Get(pkgs)) = 0
             THEN /\ result' = Some(<<>>)
                  /\ spc' = "returned"
                  /\ UNCHANGED readLockCalls
             ELSE /\ spc' = "readLock"
                  /\ readLockCalls' = readLockCalls + 1
                  /\ UNCHANGED result
    /\ UNCHANGED adapterVars
    /\ UNCHANGED <<serviceVars, cliArgsError, lockResult, fsFallback, staleLockWarn,
                   route, staleWarn, usedPackagesInsteadOfLock, submitted,
                   answers, resolveCalls>>

\* readLock answers (scanner.ts:298-441); BUN_OSV_ENABLE_FS_FALLBACK is read
\* only when the lock was not found
LockRead ==
    /\ spc = "readLock"
    /\ \E lr \in LockReadResults, useLegacy \in BOOLEAN :
          /\ lockResult' = Some(lr)
          /\ IF ~lr.ok /\ lr.error.type = "lock-not-found"
             THEN fsFallback' = Some(useLegacy)
             ELSE useLegacy = FALSE /\ fsFallback' = None
          /\ Proceed(AfterReadLock(lr, Get(providedPackages), useLegacy))
    /\ UNCHANGED adapterVars
    /\ UNCHANGED <<finding, level, cpc, body, advisories, policy, pc>>
    /\ UNCHANGED <<cliArgsError, providedPackages, staleLockWarn, staleWarn,
                   answers, readLockCalls>>

\* resolveDependencies answers (scanner.ts:303-316)
Resolved ==
    /\ spc = "resolve"
    /\ \E resolved \in ResolveResults : Proceed(AfterResolve(resolved))
    /\ UNCHANGED adapterVars
    /\ UNCHANGED <<finding, level, cpc, body, advisories, policy, pc>>
    /\ UNCHANGED <<cliArgsError, providedPackages, lockResult, fsFallback,
                   staleLockWarn, staleWarn, answers, readLockCalls>>

\* the document the catch block scans: lockResult.data
LockDocumentRead ==
    IF IsSome(lockResult) /\ Get(lockResult).ok THEN Get(lockResult).data
    ELSE L_NotARecord

\* scan takes the answer ans to the call it awaited; after the packages
\* scan has answered, BUN_OSV_ENABLE_STALE_LOCK_WARN is read (421)
TakeAnswer(call, outcome, ans, enabled) ==
    /\ IF route = "packages" /\ ~ans.threw THEN TRUE ELSE ~enabled
    /\ body' = IF ReachesPort(call) /\ outcome.kind = "osv-ok"
               THEN outcome.body ELSE body
    /\ advisories' = IF ans.threw THEN advisories
                     ELSE IF ans.result.ok THEN ans.result.data ELSE advisories
    /\ staleLockWarn' = IF route = "packages" /\ ~ans.threw THEN Some(enabled)
                        ELSE staleLockWarn
    /\ staleWarn' = StaleWarnFor(route, ans.threw, enabled, staleWarn)
    /\ answers' = Append(answers, ans)
    /\ Proceed(AfterService(route, ans, call, LockDocumentRead,
                            Get(providedPackages),
                            StaleWarnFor(route, ans.threw, enabled, staleWarn),
                            usedPackagesInsteadOfLock, policy))

\* the security service answers the pending call
ServiceAnswers ==
    /\ spc = "service"
    /\ \E outcome \in PortOutcomes, enabled \in BOOLEAN :
          /\ IF ReachesPort(submitted[Len(submitted)]) THEN TRUE
             ELSE outcome = OsvOk([results |-> <<>>])
          /\ TakeAnswer(submitted[Len(submitted)], outcome,
                        serviceAnswer(submitted[Len(submitted)], outcome), enabled)
    /\ UNCHANGED adapterVars
    /\ UNCHANGED <<finding, level, cpc, policy, pc>>
    /\ UNCHANGED <<cliArgsError, providedPackages, lockResult, fsFallback,
                   readLockCalls>>

NextScan ==
    \/ ScanCalled
    \/ LockRead
    \/ Resolved
    \/ ServiceAnswers

SpecScan == InitScan /\ [][NextScan]_vars

----------------------------------------------------------------------------
(* Vocabulary of the scan claims *)

ScanReturned == spc = "returned"
ScanResult == Get(result)

ParsedArgs == ~IsSome(cliArgsError)
PackagesGiven == IsSome(providedPackages) /\ Len(Get(providedPackages)) > 0

LockWasRead == IsSome(lockResult) /\ Get(lockResult).ok
LockReadFailed ==
    /\ IsSome(lockResult)
    /\ ~Get(lockResult).ok
    /\ Get(lockResult).error.type = "lock-read-error"
LockUnparsable == LockWasRead /\ ~parseBunLock(Get(lockResult).data).ok
InvalidMetadata == PackagesGiven /\ ~packagesToCoordinates(Get(providedPackages)).ok

\* the service answered error e to some call
ServiceFailedWith(types) ==
    \E i \in 1..Len(answers) :
        /\ ~answers[i].threw
        /\ ~answers[i].result.ok
        /\ answers[i].result.error.type \in types

LastAnswerOk ==
    /\ Len(answers) > 0
    /\ ~answers[Len(answers)].threw
    /\ answers[Len(answers)].result.ok

FailureDescriptions ==
    { "Failed to read bun.lock: EACCES: permission denied",
      "Failed to parse bun.lock: invalid-document",
      "Failed to parse bun.lock: missing-packages",
      "Invalid package metadata: Package missing name field",
      "Invalid package metadata: Package a missing version field",
      "Failed to serialize SBOM: Converting circular structure to JSON",
      "OSV scanner failed: fetch failed",
      "OSV scanner failed: HTTP 500: upstream down",
      "OSV scanner failed: HTTP 503" }

FailsClosed(list) ==
    /\ Len(list) = 1
    /\ list[1].level = "fatal"
    /\ list[1].url = NULL
    /\ list[1].description \in FailureDescriptions

\* C14: a scan of a non-empty package list that meets a failure (bun.lock
\* unreadable, bun.lock unparsable, invalid package metadata, SBOM
\* serialization failure, OSV scanner error) returns exactly one advisory,
\* fatal, url null, its description naming the failure; never an empty list
\* and never a list without a fatal advisory.
C14_FailsClosed ==
    (/\ ScanReturned
     /\ ParsedArgs
     /\ PackagesGiven
     /\ \/ LockReadFailed
        \/ LockUnparsable
        \/ InvalidMetadata
        \/ ServiceFailedWith({"lock-parse-error", "sbom-serialization-error",
                              "osv-scan-error"}))
        => FailsClosed(ScanResult)

\* the name@version comparison was made: the lock was read and parsed and
\* every provided package is an object
Compared ==
    /\ ParsedArgs
    /\ PackagesGiven
    /\ LockWasRead
    /\ parseBunLock(Get(lockResult).data).ok
    /\ ~PackagesThrow(Get(providedPackages))

SetsDiffer ==
    LockSet(parseBunLock(Get(lockResult).data).data) # PkgSet(Get(providedPackages))

\* the scan that the comparison chose has answered (and did not throw)
ComparedAndScanned == Compared /\ Len(answers) > 0 /\ ~answers[1].threw

\* C15: the lock and the provided packages are reported as differing exactly
\* when their sets of name@version strings are unequal; when they differ one
\* warn advisory with package 'bun.lock', url null and the stale-lock
\* description is produced, and when they are identical none is.
C15_DriftIsSetInequality ==
    ComparedAndScanned =>
        /\ (submitted[1].via = "scanCoordinates") = SetsDiffer
        /\ SetsDiffer => staleWarn = Some(StaleLockAdvisory)
        /\ ~SetsDiffer => staleWarn = None

IsDriftAdvisory(a) ==
    /\ a.package = StaleLockAdvisory.package
    /\ a.url = StaleLockAdvisory.url
    /\ a.description = StaleLockAdvisory.description

C17_LoneStaleWarning ==
    (/\ ScanReturned
     /\ ComparedAndScanned
     /\ SetsDiffer
     /\ LastAnswerOk
     /\ advisories = <<>>)
        => ScanResult = <<StaleLockAdvisory>>

\* C18: collect -> append drift warning -> escalate -> unsafe downgrade: a
\* drift advisory in a result is at fatal when blockMinLevel = warn and
\* allowUnsafe = false and at warn under every other policy, and the result
\* is what the policy transform returned for the list that already held it.
C18_DriftBeforePolicy ==
    ScanReturned =>
        \A i \in 1..Len(ScanResult) :
            IsDriftAdvisory(ScanResult[i]) =>
                /\ ScanResult[i].level =
                      IF policy = PolicyConfig("warn", FALSE) THEN "fatal" ELSE "warn"
                /\ ScanResult = final
                /\ ScanResult = applyPolicy(Append(advisories, StaleLockAdvisory), policy)

\* the drift warning came back escalated
C18_Witness ==
    /\ ScanReturned
    /\ policy = PolicyConfig("warn", FALSE)
    /\ staleWarn = Some(StaleLockAdvisory)
    /\ Len(ScanResult) >= 2
    /\ IsDriftAdvisory(ScanResult[Len(ScanResult)])
    /\ ScanResult[Len(ScanResult)].level = "fatal"

\* C19: under blockMinLevel = warn with allowUnsafe = false no successful
\* scan returns an advisory at warn, on any path.
C19_PolicyOnEveryPath ==
    (/\ ScanReturned
     /\ policy = PolicyConfig("warn", FALSE)
     /\ LastAnswerOk)
        => \A i \in 1..Len(ScanResult) : ScanResult[i].level # "warn"

InvalidArgumentsDescriptions ==
    { "Invalid scanner arguments: unknown option --unknown",
      "Invalid scanner arguments: missing value for --mode",
      "Invalid scanner arguments: invalid mode 'grpc'",
      "Invalid scanner arguments: invalid batch size '0'" }

\* C20: a scanner created with arguments that fail to parse answers every
\* scan, whatever the package list, with exactly one fatal advisory
\* (package 'bun.lock', url null, description beginning 'Invalid scanner
\* arguments:') and neither reads the lock nor calls the security service.
C20_InvalidArguments ==
    IsSome(cliArgsError) =>
        /\ spc \in {"created", "returned"}
        /\ readLockCalls = 0
        /\ resolveCalls = 0
        /\ submitted = <<>>
        /\ ScanReturned =>
              /\ Len(ScanResult) = 1
              /\ ScanResult[1].level = "fatal"
              /\ ScanResult[1].package = "bun.lock"
              /\ ScanResult[1].url = NULL
              /\ ScanResult[1].description \in InvalidArgumentsDescriptions

\* invalid arguments and an empty package list: still the fatal advisory
C20_Witness ==
    /\ IsSome(cliArgsError)
    /\ ScanReturned
    /\ providedPackages = Some(<<>>)
    /\ Len(ScanResult) = 1
    /\ ScanResult[1].level = "fatal"

LockAbsent ==
    /\ IsSome(lockResult)
    /\ ~Get(lockResult).ok
    /\ Get(lockResult).error.type = "lock-not-found"

\* every call submitted to the security service so far carries the
\* coordinates derived from the provided packages
SubmitsProvidedPackages ==
    \A i \in 1..Len(submitted) :
        /\ packagesToCoordinates(Get(providedPackages)).ok
        /\ submitted[i] =
              ScanOfCoordinates(packagesToCoordinates(Get(providedPackages)).data)

SubmitsLock ==
    \A i \in 1..Len(submitted) : submitted[i] = ScanOfLock(Get(lockResult).data)

\* C21: what a scan of a non-empty package list submits is decided by the
\* lock state: bun.lock absent -> the coordinates derived from the provided
\* packages; lock parsed and sets equal -> the lock; lock parsed and sets
\* diverging -> the provided packages, never the lock; the legacy resolver
\* runs only when bun.lock is absent and BUN_OSV_ENABLE_FS_FALLBACK is '1'.
C21_LockStateDecides ==
    (ParsedArgs /\ PackagesGiven) =>
        /\ (LockAbsent /\ fsFallback # Some(TRUE)) => SubmitsProvidedPackages
        /\ (Compared /\ ~SetsDiffer) => SubmitsLock
        /\ (Compared /\ SetsDiffer) => SubmitsProvidedPackages
        /\ resolveCalls > 0 => (LockAbsent /\ fsFallback = Some(TRUE))

ValidPackage(pkg) ==
    IsNonEmptyString(NameOf(pkg)) /\ IsNonEmptyString(VersionOf(pkg))

\* the position at which key first occurs among the keys of pkgs
FirstOccurrence(pkgs, key) ==
    CHOOSE i \in 1..Len(pkgs) :
        /\ PackageKey(Get(pkgs[i])) = key
        /\ \A j \in 1..(i - 1) : PackageKey(Get(pkgs[j])) # key

\* coordinates is one coordinate per distinct name@version of pkgs, in the
\* order of first occurrence
OnePerDistinctKey(pkgs, coordinates) ==
    /\ { CoordinateKey(coordinates[j]) : j \in 1..Len(coordinates) }
            = { PackageKey(Get(pkgs[i])) : i \in 1..Len(pkgs) }
    /\ \A j \in 1..Len(coordinates) :
          /\ coordinates[j].ecosystem = "npm"
          /\ coordinates[j].name # <<>>
          /\ coordinates[j].version # <<>>
          /\ coordinates[j].name =
                Get(NameOf(pkgs[FirstOccurrence(pkgs, CoordinateKey(coordinates[j]))]))
          /\ coordinates[j].version =
                Get(VersionOf(pkgs[FirstOccurrence(pkgs, CoordinateKey(coordinates[j]))]))
          /\ \A k \in 1..Len(coordinates) :
                /\ j # k => CoordinateKey(coordinates[j]) # CoordinateKey(coordinates[k])
                /\ j < k => FirstOccurrence(pkgs, CoordinateKey(coordinates[j]))
                                < FirstOccurrence(pkgs, CoordinateKey(coordinates[k]))

\* C22: packagesToCoordinates answers an error, and no list, exactly when
\* some package lacks a non-empty name or version; otherwise it answers one
\* coordinate per distinct name@version in order of first occurrence, each
\* with ecosystem npm and non-empty name and version, no two sharing a key.
C22_PackagesToCoordinates ==
    IsSome(providedPackages) =>
        /\ packagesToCoordinates(Get(providedPackages)).ok
              = (\A i \in 1..Len(Get(providedPackages)) :
                    ValidPackage(Get(providedPackages)[i]))
        /\ IF packagesToCoordinates(Get(providedPackages)).ok
           THEN OnePerDistinctKey(Get(providedPackages),
                                  packagesToCoordinates(Get(providedPackages)).data)
           ELSE /\ DOMAIN packagesToCoordinates(Get(providedPackages)) = {"ok", "error"}
                /\ packagesToCoordinates(Get(providedPackages)).error.type
                      = "invalid-package-metadata"

\* a list that names a@1 twice was converted and submitted as one coordinate
C22_Witness ==
    /\ providedPackages = Some(<<P_a1, P_a1>>)
    /\ route = "absent"
    /\ submitted = <<ScanOfCoordinates(<<Coordinate(<<"a">>, <<"1">>)>>)>>

\* the service answered an error to the call scan awaited last
LastAnswerFailed ==
    /\ Len(answers) > 0
    /\ ~answers[Len(answers)].threw
    /\ ~answers[Len(answers)].result.ok

\* scan returned without submitting anything although the lock was looked for
ReturnedBeforeAnyScan ==
    ScanReturned /\ readLockCalls = 1 /\ submitted = <<>>

\* scan left through one of its failure returns: invalid arguments, lock
\* read failure, dependency resolution failure or invalid package metadata
\* (nothing was submitted), or an error answered by the service
OrchestrationFailed ==
    /\ ScanReturned
    /\ \/ IsSome(cliArgsError)
       \/ ReturnedBeforeAnyScan
       \/ LastAnswerFailed

\* C28: the advisory of an orchestration failure does not pass through the
\* policy transform: it is returned alone and at fatal, also when
\* allowUnsafe is true.
C28_FailureBypassesPolicy ==
    OrchestrationFailed =>
        /\ Len(ScanResult) = 1
        /\ ScanResult[1].level = "fatal"
        /\ ScanResult[1].url = NULL
        /\ final = <<>>

\* the service answered an error under allowUnsafe and the answer is fatal
C28_Witness ==
    /\ ScanReturned
    /\ AllowsUnsafe(policy)
    /\ route = "lock"
    /\ LastAnswerFailed
    /\ Len(ScanResult) = 1
    /\ ScanResult[1].level = "fatal"

----------------------------------------------------------------------------
(* src/foundation/sbomJson.ts: parseCycloneDxJson                           *)
(* An SBOM document is what JSON.parse makes of the text: parses says       *)
(* whether it parses at all, record whether the value is an object,         *)
(* components holds its "components" array when it is one.  A component is  *)
(* absent when it is not an object; its name and version are optional       *)
(* texts.  Components of the model carry no purl.                           *)

PARSE_SBOM_ERROR_INVALID_JSON == "invalid-json"
PARSE_SBOM_ERROR_INVALID_DOCUMENT == "invalid-document"
PARSE_SBOM_ERROR_MISSING_COMPONENTS == "missing-components"

Component(name, version) == Some([name |-> name, version |-> version])

\* toCoordinate of sbomJson.ts returns a coordinate, not null
HasCoordinate(component) ==
    /\ IsSome(component)
    /\ IsNonEmptyString(Get(component).name)
    /\ IsNonEmptyString(Get(component).version)

ComponentsLoop(kept) ==
    [i \in 1..Len(kept) |->
        Coordinate(Get(Get(kept[i]).name), Get(Get(kept[i]).version))]

parseCycloneDxJson(json) ==
    IF ~json.parses THEN Err(PARSE_SBOM_ERROR_INVALID_JSON)
    ELSE IF ~json.record THEN Err(PARSE_SBOM_ERROR_INVALID_DOCUMENT)
    ELSE IF ~IsSome(json.components) THEN Err(PARSE_SBOM_ERROR_MISSING_COMPONENTS)
    ELSE Ok(ComponentsLoop(SelectSeq(Get(json.components), HasCoordinate)))

----------------------------------------------------------------------------
(* src/core/osvApiTranslator.ts                                             *)
(* A querybatch result is [vulns, next_page_token]: vulns an optional list  *)
(* of {id, modified} (absent when the property is null or missing), the     *)
(* token an optional string.  A function that may throw answers Value(v) or *)
(* Throws.                                                                  *)

Value(v) == [threw |-> FALSE, value |-> v]
Throws == [threw |-> TRUE]

\* result.vulns.map throws a TypeError when vulns is null or undefined;
\* next_page_token ?? null leaves a string, the empty one included, as it is
summarizeQueryBatchResponse(coords, response) ==
    IF Len(response.results) # Len(coords)
    THEN Value(Err([type |-> "mismatched-results-length",
                    expected |-> Len(coords), actual |-> Len(response.results)]))
    ELSE IF \E i \in 1..Len(coords) : ~IsSome(response.results[i].vulns)
    THEN Throws
    ELSE Value(Ok([i \in 1..Len(coords) |->
                    [coordinate |-> coords[i],
                     vulnerabilityIds |->
                        [k \in 1..Len(Get(response.results[i].vulns)) |->
                            Get(response.results[i].vulns)[k].id],
                     nextPageToken |-> response.results[i].next_page_token]]))

HasVulnerabilities(entry) == Len(entry.vulnerabilities) > 0

ToFindings(kept) ==
    [i \in 1..Len(kept) |->
        [package |-> kept[i].coordinate, vulnerabilities |-> kept[i].vulnerabilities]]

toPackageFindings(resolved) == ToFindings(SelectSeq(resolved, HasVulnerabilities))

SOURCE_TYPE_SBOM == "sbom"

buildScanResultsBody(sourcePath, findings) ==
    IF Len(findings) = 0 THEN [results |-> <<>>]
    ELSE [results |-> << [source |-> [path |-> sourcePath, type |-> SOURCE_TYPE_SBOM],
                          packages |-> findings] >>]

----------------------------------------------------------------------------
(* src/adapters/osvScannerApi.ts                                            *)
(* What fetch answers: it rejects with a message, or it resolves with a     *)
(* response of some status whose body text either parses as JSON (json is   *)
(* the parsed value) or does not (json is absent).  The parsed value of a   *)
(* querybatch body is [results]; that of a vulnerability body is an         *)
(* optional document, absent when the body is the JSON text null.           *)

SOURCE_PATH_OSV_API == "osv-rest-api"

FetchRejects(message) ==
    [rejects |-> TRUE, message |-> message, status |-> 0, text |-> "", json |-> None]
HttpResponse(status, text, json) ==
    [rejects |-> FALSE, message |-> "", status |-> status, text |-> text, json |-> json]

\* the try/catch around fetch, response.ok, response.text and JSON.parse
ReadResponse(response) ==
    IF response.rejects
    THEN Err([type |-> "network-error", message |-> response.message])
    ELSE IF ~(response.status >= 200 /\ response.status <= 299)
    THEN Err([type |-> "invalid-status", status |-> response.status,
              body |-> IF response.text # "" THEN response.text ELSE NULL])
    ELSE IF ~IsSome(response.json)
    THEN Err([type |-> "invalid-json",
              message |-> "Failed to parse OSV API response JSON"])
    ELSE Ok(Get(response.json))

postQueryBatch(response) == ReadResponse(response)
getVulnerabilityDetail(response) == ReadResponse(response)

describeSbomParseError(error) ==
    CASE error = PARSE_SBOM_ERROR_INVALID_JSON -> "SBOM JSON cannot be parsed"
      [] error = PARSE_SBOM_ERROR_INVALID_DOCUMENT -> "SBOM JSON is not a valid object"
      [] error = PARSE_SBOM_ERROR_MISSING_COMPONENTS ->
            "SBOM document is missing components array"

\* if (pageToken), if (entry.nextPageToken): null and "" are falsy
Truthy(token) == IsSome(token) /\ Get(token) # ""

QueryItem(coordinate, pageToken) == [coordinate |-> coordinate, pageToken |-> pageToken]

toQueryRequest(coordinate, pageToken) ==
    [package |-> [name |-> coordinate.name, ecosystem |-> coordinate.ecosystem],
     version |-> coordinate.version,
     page_token |-> IF Truthy(pageToken) THEN pageToken ELSE None]

coordinateKey(coordinate) ==
    <<coordinate.ecosystem, "::">> \o coordinate.name \o <<"@">> \o coordinate.version

\* the two requests the adapter hands to fetch
QueryBatchRequest(items) ==
    [url |-> "/v1/querybatch",
     queries |-> [i \in 1..Len(items) |->
                    toQueryRequest(items[i].coordinate, items[i].pageToken)],
     id |-> NULL]
VulnRequest(id) == [url |-> "/v1/vulns/", queries |-> <<>>, id |-> id]

\* for (const id of ids) if (!list.includes(id)) list.push(id)
RECURSIVE PushMissing(_, _)
PushMissing(list, ids) ==
    IF ids = <<>> THEN list
    ELSE IF \E i \in 1..Len(list) : list[i] = Head(ids)
        THEN PushMissing(list, Tail(ids))
    ELSE PushMissing(Append(list, Head(ids)), Tail(ids))

\* entriesMap.get(key): the position of the entry in entriesOrder, 0 if none
EntryPosition(order, key) ==
    IF \E i \in 1..Len(order) : coordinateKey(order[i].coordinate) = key
    THEN CHOOSE i \in 1..Len(order) : coordinateKey(order[i].coordinate) = key
    ELSE 0

MergeEntry(entry, order, k) ==
    IF k = 0
    THEN Append(order, [coordinate |-> entry.coordinate,
                        vulnerabilityIds |-> PushMissing(<<>>, entry.vulnerabilityIds)])
    ELSE [order EXCEPT ![k].vulnerabilityIds = PushMissing(@, entry.vulnerabilityIds)]

\* the for loop over summary.data (170-193), as far as entriesOrder goes
RECURSIVE MergeEntries(_, _)
MergeEntries(summary, order) ==
    IF summary = <<>> THEN order
    ELSE MergeEntries(Tail(summary),
            MergeEntry(Head(summary), order,
                       EntryPosition(order, coordinateKey(Head(summary).coordinate))))

CarriesToken(entry) == Truthy(entry.nextPageToken)

Requeued(carrying) ==
    [i \in 1..Len(carrying) |-> QueryItem(carrying[i].coordinate, carrying[i].nextPageToken)]

\* a loop that queues again only the first result that carried a token
NewPending_FirstOnly(summary) ==
    IF Len(SelectSeq(summary, CarriesToken)) = 0 THEN <<>>
    ELSE <<Requeued(SelectSeq(summary, CarriesToken))[1]>>

\* the same loop, as far as pending goes (187-192)
NewPending(summary) == Requeued(SelectSeq(summary, CarriesToken))

\* entries.flatMap((entry) => entry.vulnerabilityIds)
AllIds(entries) == Flatten([i \in 1..Len(entries) |-> entries[i].vulnerabilityIds])

\* a collection that requests an id once for every entry that lists it
uniqueVulnerabilityIds_PerEntry(entries) == AllIds(entries)

\* Array.from(new Set(entries.flatMap((entry) => entry.vulnerabilityIds)))
uniqueVulnerabilityIds(entries) ==
    PushMissing(<<>>, AllIds(entries))

\* a Map<string, detail> as the list of its [id, detail] entries
MapSet(map, id, detail) ==
    IF \E i \in 1..Len(map) : map[i].id = id
    THEN [i \in 1..Len(map) |->
            IF map[i].id = id THEN [id |-> id, detail |-> detail] ELSE map[i]]
    ELSE Append(map, [id |-> id, detail |-> detail])

MapPosition(map, id) ==
    IF \E i \in 1..Len(map) : map[i].id = id
    THEN CHOOSE i \in 1..Len(map) : map[i].id = id
    ELSE 0

\* detailMap.get(id), as an optional document: absent when the map has no
\* entry for id (undefined) or holds null for it; !detail is true of both
MapGet(map, id) ==
    IF MapPosition(map, id) = 0 THEN None ELSE map[MapPosition(map, id)].detail

FirstMissing(ids, map) ==
    ids[CHOOSE k \in 1..Len(ids) :
            /\ ~IsSome(MapGet(map, ids[k]))
            /\ \A j \in 1..(k - 1) : IsSome(MapGet(map, ids[j]))]

buildResolvedPackages(entries, map) ==
    IF \E i \in 1..Len(entries) : \E k \in 1..Len(entries[i].vulnerabilityIds) :
            ~IsSome(MapGet(map, entries[i].vulnerabilityIds[k]))
    THEN Err([type |-> "invalid-json",
              message |-> "Missing OSV vulnerability detail for id "
                            \o FirstMissing(AllIds(entries), map)])
    ELSE Ok([i \in 1..Len(entries) |->
                [coordinate |-> entries[i].coordinate,
                 vulnerabilities |->
                    [k \in 1..Len(entries[i].vulnerabilityIds) |->
                        Get(MapGet(map, entries[i].vulnerabilityIds[k]))]]])

----------------------------------------------------------------------------
(* The REST scan from one await to the next.  st holds the locals of        *)
(* collectQueryBatchVulnerabilityIds and fetchVulnerabilityDetails; a step  *)
(* answers where scan stops next, what it returned, the request it handed   *)
(* to fetch and the locals as they are then.                                *)

Locals(pend, items, order, ids, map) ==
    [pending |-> pend, batch |-> items, entriesOrder |-> order,
     vulnerabilityIds |-> ids, detailMap |-> map]

Returns(st, answer) ==
    [to |-> "returned", result |-> Some(answer), request |-> None, st |-> st]
ScanThrows(st) == [to |-> "threw", result |-> None, request |-> None, st |-> st]
Sends(to, request, st) ==
    [to |-> to, result |-> None, request |-> Some(request), st |-> st]

\* pending.splice(0, batchSize): what it returns and what it leaves
Spliced(pend, size) == SubSeq(pend, 1, IF Len(pend) < size THEN Len(pend) ELSE size)
Remaining(pend, size) == SubSeq(pend, Len(Spliced(pend, size)) + 1, Len(pend))

CoordinatesOf(items) == [i \in 1..Len(items) |-> items[i].coordinate]

\* scan after buildResolvedPackages (84-93)
AfterResolvedPackages(st, resolved) ==
    IF ~resolved.ok THEN Returns(st, resolved)
    ELSE Returns(st, Ok(buildScanResultsBody(SOURCE_PATH_OSV_API,
                                             toPackageFindings(resolved.data))))

\* the for loop of fetchVulnerabilityDetails from its k-th id on (259-265),
\* then scan from 76 on
FetchLoop(st, k) ==
    IF k <= Len(st.vulnerabilityIds)
    THEN Sends("vulns", VulnRequest(st.vulnerabilityIds[k]), st)
    ELSE AfterResolvedPackages(st, buildResolvedPackages(st.entriesOrder, st.detailMap))

\* a loop that turns to the details as soon as an id is known
QueryLoop_DetailsFirst(st, size) ==
    IF Len(st.pending) > 0 /\ AllIds(st.entriesOrder) = <<>>
    THEN Sends("querybatch", QueryBatchRequest(Spliced(st.pending, size)),
               [st EXCEPT !.batch = Spliced(st.pending, size),
                          !.pending = Remaining(st.pending, size)])
    ELSE FetchLoop([st EXCEPT !.vulnerabilityIds =
                                    uniqueVulnerabilityIds(st.entriesOrder)], 1)

\* the while loop from its condition on (145-154), then 196-204 and scan 74
QueryLoop(st, size) ==
    IF Len(st.pending) > 0
    THEN Sends("querybatch", QueryBatchRequest(Spliced(st.pending, size)),
               [st EXCEPT !.batch = Spliced(st.pending, size),
                          !.pending = Remaining(st.pending, size)])
    ELSE FetchLoop([st EXCEPT !.vulnerabilityIds =
                                    uniqueVulnerabilityIds(st.entriesOrder)], 1)

\* the loop body after summarizeQueryBatchResponse (163-193)
AfterSummary(summary, st, size) ==
    IF summary.threw THEN ScanThrows(st)
    ELSE IF ~summary.value.ok
    THEN Returns(st, Err([type |-> "invalid-json",
                          message |-> "OSV querybatch response structure did not match request"]))
    ELSE QueryLoop([st EXCEPT !.entriesOrder = MergeEntries(summary.value.data, @),
                              !.pending = @ \o NewPending(summary.value.data)], size)

\* the loop body after postQueryBatch answered (154-161)
AfterQueryBatch(fetched, st, size) ==
    IF ~fetched.ok THEN Returns(st, fetched)
    ELSE AfterSummary(summarizeQueryBatchResponse(CoordinatesOf(st.batch), fetched.data),
                      st, size)

\* a loop that goes on to the next id when a detail could not be fetched
AfterVuln_SkipsFailed(fetched, st, k) ==
    IF ~fetched.ok THEN FetchLoop(st, k + 1)
    ELSE FetchLoop([st EXCEPT !.detailMap =
                                MapSet(@, st.vulnerabilityIds[k], fetched.data)], k + 1)

\* fetchVulnerabilityDetails after getVulnerabilityDetail answered (260-264)
AfterVuln(fetched, st, k) ==
    IF ~fetched.ok THEN Returns(st, fetched)
    ELSE FetchLoop([st EXCEPT !.detailMap =
                                MapSet(@, st.vulnerabilityIds[k], fetched.data)], k + 1)

InitialPending(coords) == [i \in 1..Len(coords) |-> QueryItem(coords[i], None)]

\* scan up to its first await (54-69, 137-150)
StartScan(parsedSbom, size) ==
    IF ~parsedSbom.ok
    THEN Returns(Locals(<<>>, <<>>, <<>>, <<>>, <<>>),
                 Err([type |-> "decode-error",
                      message |-> describeSbomParseError(parsedSbom.error)]))
    ELSE IF Len(parsedSbom.data) = 0
    THEN Returns(Locals(<<>>, <<>>, <<>>, <<>>, <<>>),
                 Ok(buildScanResultsBody(SOURCE_PATH_OSV_API, <<>>)))
    ELSE QueryLoop(Locals(InitialPending(parsedSbom.data), <<>>, <<>>, <<>>, <<>>), size)

----------------------------------------------------------------------------
(* Inputs of the REST scan *)

MaxComponents == 2     \* components of one SBOM document
MaxBatchSize == 2      \* options.batchSize
MaxQueryBatches == 3   \* querybatch requests after which the server hands out no token

S_Unparsable == [parses |-> FALSE, record |-> FALSE, components |-> None]
S_NotARecord == [parses |-> TRUE, record |-> FALSE, components |-> None]
S_NoComponents == [parses |-> TRUE, record |-> TRUE, components |-> None]
SbomDocument(components) ==
    [parses |-> TRUE, record |-> TRUE, components |-> Some(components)]

C_a1 == Component(Some(<<"a">>), Some(<<"1">>))
C_b2 == Component(Some(<<"b">>), Some(<<"2">>))
C_Nameless == Component(None, Some(<<"1">>))

SbomDocuments ==
    { S_Unparsable, S_NotARecord, S_NoComponents }
        \cup { SbomDocument(q) : q \in ListsUpTo({C_a1, C_b2, C_Nameless}, MaxComponents) }

BatchVuln(id) == [id |-> id, modified |-> "2024-01-01T00:00:00Z"]
QueryResult(vulns, token) == [vulns |-> vulns, next_page_token |-> token]

QR_NoVulns == QueryResult(None, None)
QR_Empty == QueryResult(Some(<<>>), None)
QR_First == QueryResult(Some(<<BatchVuln("GHSA-first")>>), Some("token-1"))
QR_Both == QueryResult(Some(<<BatchVuln("GHSA-second"), BatchVuln("GHSA-first")>>), None)
QR_Blank == QueryResult(Some(<<BatchVuln("GHSA-first")>>), Some(""))

QueryResults(more) ==
    { QR_NoVulns, QR_Empty, QR_Both, QR_Blank } \cup (IF more THEN { QR_First } ELSE {})

\* as many results as queries, or one more, or one less
ResultLists(n, more) ==
    { q \in ListsUpTo(QueryResults(more), n) : Len(q) = n }
        \cup { [i \in 1..(n + 1) |-> QR_Empty], [i \in 1..(n - 1) |-> QR_Empty] }

FailedFetches ==
    { FetchRejects("network down"),
      HttpResponse(500, "boom", None),
      HttpResponse(503, "", None),
      HttpResponse(200, "not-json", None) }

QueryBatchResponses(n, more) ==
    FailedFetches
        \cup { HttpResponse(200, "json", Some([results |-> rs])) : rs \in ResultLists(n, more) }

Detail(id, summary) == [id |-> id, summary |-> summary]

VulnResponses(id) ==
    FailedFetches
        \cup { HttpResponse(200, "null", Some(None)),
               HttpResponse(200, "json", Some(Some(Detail(id, "as published")))),
               HttpResponse(200, "json", Some(Some(Detail(id, "as modified")))) }

----------------------------------------------------------------------------
(* The REST adapter: createOsvScannerApiAdapter, then one call of scan      *)

\* the classifier, the pipeline and the scanner are not under way
NoService ==
    /\ finding = IdleFinding
    /\ level = UNDEFINED
    /\ cpc = "idle"
    /\ body = [results |-> <<>>]
    /\ advisories = <<>>
    /\ policy = None
    /\ final = <<>>
    /\ pc = "idle"

InitRest ==
    /\ NoService
    /\ NoScan
    /\ NoCli
    /\ rpc = "idle"
    /\ sbom = None
    /\ batchSize \in 1..MaxBatchSize
    /\ pending = <<>>
    /\ batch = <<>>
    /\ entriesOrder = <<>>
    /\ vulnerabilityIds = <<>>
    /\ detailMap = <<>>
    /\ requests = <<>>
    /\ responses = <<>>
    /\ restResult = None

RestLocals == Locals(pending, batch, entriesOrder, vulnerabilityIds, detailMap)

IsVulnRequest(request) == request.url = "/v1/vulns/"
IsQueryBatchRequest(request) == request.url = "/v1/querybatch"

\* scan moves on as the step says
RestProceed(d) ==
    /\ rpc' = d.to
    /\ restResult' = IF IsSome(d.result) THEN d.result ELSE restResult
    /\ requests' = IF IsSome(d.request) THEN Append(requests, Get(d.request)) ELSE requests
    /\ pending' = d.st.pending
    /\ batch' = d.st.batch
    /\ entriesOrder' = d.st.entriesOrder
    /\ vulnerabilityIds' = d.st.vulnerabilityIds
    /\ detailMap' = d.st.detailMap

RestScanCalled ==
    /\ rpc = "idle"
    /\ \E json \in SbomDocuments :
          /\ sbom' = Some(json)
          /\ RestProceed(StartScan(parseCycloneDxJson(json), batchSize))
    /\ UNCHANGED <<batchSize, responses>>
    /\ UNCHANGED <<serviceVars, scanVars, cliVars>>

\* fetch settles the querybatch request in flight
QueryBatchResponds ==
    /\ rpc = "querybatch"
    /\ \E response \in QueryBatchResponses(Len(batch), Len(requests) < MaxQueryBatches) :
          /\ responses' = Append(responses, response)
          /\ RestProceed(AfterQueryBatch(postQueryBatch(response), RestLocals, batchSize))
    /\ UNCHANGED <<sbom, batchSize>>
    /\ UNCHANGED <<serviceVars, scanVars, cliVars>>

\* fetch settles the /v1/vulns request in flight
VulnResponds ==
    /\ rpc = "vulns"
    /\ \E response \in VulnResponses(requests[Len(requests)].id) :
          /\ responses' = Append(responses, response)
          /\ RestProceed(AfterVuln(getVulnerabilityDetail(response), RestLocals,
                                   Len(SelectSeq(requests, IsVulnRequest))))
    /\ UNCHANGED <<sbom, batchSize>>
    /\ UNCHANGED <<serviceVars, scanVars, cliVars>>

NextRest ==
    \/ RestScanCalled
    \/ QueryBatchResponds
    \/ VulnResponds

SpecRest == InitRest /\ [][NextRest]_vars

\* every request handed to fetch settles
SpecRestFair ==
    /\ SpecRest
    /\ WF_vars(QueryBatchResponds)
    /\ WF_vars(VulnResponds)

----------------------------------------------------------------------------
(* Vocabulary of the REST claims *)

RestReturned == rpc = "returned"
RestSucceeded == RestReturned /\ Get(restResult).ok
RestFailed == RestReturned /\ ~Get(restResult).ok

\* the coordinates parseCycloneDxJson found in the SBOM
SbomCoordinates ==
    IF IsSome(sbom) /\ parseCycloneDxJson(Get(sbom)).ok
    THEN parseCycloneDxJson(Get(sbom)).data
    ELSE <<>>

QueryBatchCount == Len(SelectSeq(requests, IsQueryBatchRequest))
VulnRequests == SelectSeq(requests, IsVulnRequest)

\* the querybatch requests that have been answered
AnsweredQueryBatches ==
    1..(IF Len(responses) < QueryBatchCount THEN Len(responses) ELSE QueryBatchCount)

\* the results of the i-th response, a 2xx response whose body parsed
ResultsOf(i) == Get(responses[i].json).results

QueryIsFor(query, c) ==
    /\ query.package.name = c.name
    /\ query.package.ecosystem = c.ecosystem
    /\ query.version = c.version

\* the ids the server listed for coordinate c, page after page
PageIds(c) ==
    Flatten([i \in 1..QueryBatchCount |->
        Flatten([j \in 1..Len(requests[i].queries) |->
            IF QueryIsFor(requests[i].queries[j], c)
            THEN [k \in 1..Len(Get(ResultsOf(i)[j].vulns)) |->
                        Get(ResultsOf(i)[j].vulns)[k].id]
            ELSE <<>>])])

FirstIndex(list, x) ==
    CHOOSE i \in 1..Len(list) : list[i] = x /\ \A j \in 1..(i - 1) : list[j] # x

\* list holds the elements of source, each once, in order of first appearance
InOrderOfFirstAppearance(list, source) ==
    /\ { list[i] : i \in 1..Len(list) } = { source[i] : i \in 1..Len(source) }
    /\ \A i, j \in 1..Len(list) :
          i < j => FirstIndex(source, list[i]) < FirstIndex(source, list[j])

\* the findings of a successful scan
Findings ==
    IF Len(Get(restResult).data.results) = 0 THEN <<>>
    ELSE Get(restResult).data.results[1].packages

IdsOf(f) == [k \in 1..Len(f.vulnerabilities) |-> f.vulnerabilities[k].id]

\* every token a result carried was sent again with its coordinate, or waits
\* in the pending queue
TokensFollowed ==
    \A i \in AnsweredQueryBatches : \A j \in 1..Len(requests[i].queries) :
        Truthy(ResultsOf(i)[j].next_page_token) =>
            \/ \E i2 \in (i + 1)..QueryBatchCount : \E j2 \in 1..Len(requests[i2].queries) :
                    requests[i2].queries[j2] =
                        [requests[i].queries[j] EXCEPT
                            !.page_token = ResultsOf(i)[j].next_page_token]
            \/ \E p \in 1..Len(pending) :
                    /\ QueryIsFor(requests[i].queries[j], pending[p].coordinate)
                    /\ pending[p].pageToken = ResultsOf(i)[j].next_page_token

\* C23: a coordinate whose querybatch result carries a next_page_token is
\* queried again with that token until no result carries one; the finding
\* of a coordinate holds the vulnerabilities of all its pages, in order of
\* first appearance and without duplicate ids; the findings keep the order
\* in which the coordinates were first queried.
C23_Pagination ==
    /\ (rpc \in {"querybatch", "vulns"} \/ RestSucceeded) => TokensFollowed
    /\ (rpc = "vulns" \/ RestSucceeded) => pending = <<>>
    /\ RestSucceeded =>
          /\ \A c \in { SbomCoordinates[i] : i \in 1..Len(SbomCoordinates) } :
                IF PageIds(c) = <<>>
                THEN \A n \in 1..Len(Findings) : Findings[n].package # c
                ELSE \E n \in 1..Len(Findings) :
                        /\ Findings[n].package = c
                        /\ InOrderOfFirstAppearance(IdsOf(Findings[n]), PageIds(c))
          /\ \A n, m \in 1..Len(Findings) :
                n < m => FirstIndex(SbomCoordinates, Findings[n].package)
                            < FirstIndex(SbomCoordinates, Findings[m].package)

\* a@1 took two pages: the second request carried the token of the first,
\* and the finding lists the ids of both pages once each
C23_Witness ==
    /\ RestSucceeded
    /\ batchSize = 1
    /\ SbomCoordinates = <<Coordinate(<<"a">>, <<"1">>)>>
    /\ QueryBatchCount = 2
    /\ requests[2].queries[1].page_token = Some("token-1")
    /\ Len(Findings) = 1
    /\ IdsOf(Findings[1]) = <<"GHSA-first", "GHSA-second">>

\* the coordinates the i-th querybatch request asked about
CoordinatesAsked(i) ==
    [j \in 1..Len(requests[i].queries) |->
        [ecosystem |-> requests[i].queries[j].package.ecosystem,
         name |-> requests[i].queries[j].package.name,
         version |-> requests[i].queries[j].version]]

\* the i-th querybatch response parsed and holds as many results as queries
CountMatches(i) ==
    /\ ReadResponse(responses[i]).ok
    /\ Len(ResultsOf(i)) = Len(requests[i].queries)

\* what the claim expects for the j-th result of the i-th response
ExpectedSummaryEntry(i, j) ==
    [coordinate |-> CoordinatesAsked(i)[j],
     vulnerabilityIds |->
        IF IsSome(ResultsOf(i)[j].vulns)
        THEN [k \in 1..Len(Get(ResultsOf(i)[j].vulns)) |-> Get(ResultsOf(i)[j].vulns)[k].id]
        ELSE <<>>,
     nextPageToken |-> ResultsOf(i)[j].next_page_token]

SummaryOf(i) == summarizeQueryBatchResponse(CoordinatesAsked(i), Get(responses[i].json))

\* C25: given as many results as coordinates, summarizeQueryBatchResponse
\* returns ok with one entry per coordinate in order, the i-th result paired
\* with the i-th coordinate; a result whose vulns is null or absent yields an
\* empty vulnerabilityIds list and no error; a result without
\* next_page_token yields nextPageToken null.
C25_SummaryPairsResults ==
    \A i \in AnsweredQueryBatches :
        CountMatches(i) =>
            /\ ~SummaryOf(i).threw
            /\ SummaryOf(i).value.ok
            /\ SummaryOf(i).value.data =
                  [j \in 1..Len(requests[i].queries) |-> ExpectedSummaryEntry(i, j)]

\* the i-th request, a querybatch request, was answered by a failure
QueryBatchFailed(i) ==
    \/ ~CountMatches(i)
    \/ \E j \in 1..Len(ResultsOf(i)) : ~IsSome(ResultsOf(i)[j].vulns)

\* C26: no GET /v1/vulns/{id} is issued before every querybatch page is
\* resolved and the pending queue is empty, and none at all when a
\* querybatch request failed or the SBOM held no coordinates.
C26_DetailsAfterCollection ==
    /\ Len(VulnRequests) > 0 =>
          /\ pending = <<>>
          /\ Len(SbomCoordinates) > 0
          /\ TokensFollowed
          /\ \A i \in 1..QueryBatchCount : ~QueryBatchFailed(i)
          /\ \A i, j \in 1..Len(requests) :
                (i < j /\ IsVulnRequest(requests[i])) => IsVulnRequest(requests[j])
    /\ (\E i \in AnsweredQueryBatches : QueryBatchFailed(i)) => Len(VulnRequests) = 0
    /\ (IsSome(sbom) /\ Len(SbomCoordinates) = 0) => requests = <<>>

\* the first GET is in flight after both pages of a@1 were collected
C26_Witness ==
    /\ rpc = "vulns"
    /\ QueryBatchCount = 2
    /\ Len(VulnRequests) = 1
    /\ requests[3] = VulnRequest("GHSA-first")
    /\ pending = <<>>
    /\ requests[2].queries[1].page_token = Some("token-1")

RestError == Get(restResult).error

\* an error result holds an error and nothing else
ErrorOnly == DOMAIN Get(restResult) = {"ok", "error"}

FetchRejected(i) == responses[i].rejects
NotSuccessStatus(i) ==
    ~responses[i].rejects /\ ~(responses[i].status \in 200..299)
Unparsable(i) ==
    ~responses[i].rejects /\ responses[i].status \in 200..299 /\ ~IsSome(responses[i].json)
CountDiffers(i) ==
    /\ i <= QueryBatchCount
    /\ ReadResponse(responses[i]).ok
    /\ Len(ResultsOf(i)) # Len(requests[i].queries)

StepFailed(i) ==
    FetchRejected(i) \/ NotSuccessStatus(i) \/ Unparsable(i) \/ CountDiffers(i)

\* the error the claim names for the failure of the i-th request
NamedError(i) ==
    IF FetchRejected(i)
    THEN RestError = [type |-> "network-error", message |-> responses[i].message]
    ELSE IF NotSuccessStatus(i)
    THEN /\ RestError.type = "invalid-status"
         /\ RestError.status = responses[i].status
         /\ responses[i].text # "" => RestError.body = responses[i].text
    ELSE RestError.type = "invalid-json"

\* a collected id whose fetched document is null
DetailMissing ==
    \E e \in 1..Len(entriesOrder) : \E k \in 1..Len(entriesOrder[e].vulnerabilityIds) :
        \E m \in 1..Len(detailMap) :
            /\ detailMap[m].id = entriesOrder[e].vulnerabilityIds[k]
            /\ ~IsSome(detailMap[m].detail)

\* C27: the first failing step ends the scan with that step's error and
\* nothing else: a rejected fetch gives network-error, a non-2xx response
\* invalid-status with its status and body, an unparsable body invalid-json,
\* a result count different from the query count invalid-json, an id without
\* a fetched detail invalid-json; no request follows the failure and no
\* findings are returned.
C27_FirstFailureEndsScan ==
    /\ \A i \in 1..Len(responses) :
          StepFailed(i) =>
              /\ i = Len(requests)
              /\ RestFailed
              /\ ErrorOnly
              /\ NamedError(i)
    /\ (RestReturned /\ DetailMissing /\ \A i \in 1..Len(responses) : ~StepFailed(i)) =>
          /\ RestFailed
          /\ ErrorOnly
          /\ RestError.type = "invalid-json"
    /\ rpc \in {"returned", "threw"} => Len(responses) = Len(requests)

\* two ids were collected, the first GET answered 500: the scan ended there
C27_Witness ==
    /\ RestFailed
    /\ Len(vulnerabilityIds) = 2
    /\ Len(VulnRequests) = 1
    /\ responses[Len(responses)] = HttpResponse(500, "boom", None)
    /\ RestError = [type |-> "invalid-status", status |-> 500, body |-> "boom"]

\* the document the server sent for id (the answer to the request for it)
DocumentSent(id) ==
    Get(Get(responses[CHOOSE i \in 1..Len(requests) : requests[i] = VulnRequest(id)].json))

EntriesWithIds == SelectSeq(entriesOrder, LAMBDA e : Len(e.vulnerabilityIds) > 0)

\* C30: each distinct vulnerability id is requested from /v1/vulns at most
\* once, however many coordinates or pages reported it, and every finding
\* that lists the id holds the same detail document; the findings of a
\* successful scan hold exactly the ids collected for each coordinate, each
\* with its detail.
C30_OneRequestPerId ==
    /\ \A i, j \in 1..Len(VulnRequests) :
          i # j => VulnRequests[i].id # VulnRequests[j].id
    /\ RestSucceeded =>
          /\ Len(Findings) = Len(EntriesWithIds)
          /\ \A n \in 1..Len(Findings) :
                /\ Findings[n].package = EntriesWithIds[n].coordinate
                /\ IdsOf(Findings[n]) = EntriesWithIds[n].vulnerabilityIds
                /\ \A k \in 1..Len(Findings[n].vulnerabilities) :
                      Findings[n].vulnerabilities[k]
                          = DocumentSent(EntriesWithIds[n].vulnerabilityIds[k])
          /\ \A n, m \in 1..Len(Findings) :
                \A k \in 1..Len(Findings[n].vulnerabilities) :
                \A l \in 1..Len(Findings[m].vulnerabilities) :
                    Findings[n].vulnerabilities[k].id = Findings[m].vulnerabilities[l].id
                        => Findings[n].vulnerabilities[k] = Findings[m].vulnerabilities[l]

\* a@1 and b@2 both list GHSA-first and GHSA-second: two GETs, four details
C30_Witness ==
    /\ RestSucceeded
    /\ Len(Findings) = 2
    /\ IdsOf(Findings[1]) = <<"GHSA-second", "GHSA-first">>
    /\ IdsOf(Findings[2]) = <<"GHSA-second", "GHSA-first">>
    /\ Len(VulnRequests) = 2

\* every querybatch request holds between 1 and batchSize queries
BatchesWithinSize ==
    \A i \in 1..QueryBatchCount :
        Len(requests[i].queries) >= 1 /\ Len(requests[i].queries) <= batchSize

\* the queries not yet answered: those waiting and those in flight
Outstanding(state, queue, items) ==
    Len(queue) + (IF state = "querybatch" THEN Len(items) ELSE 0)

TokensCarried(results) == Len(SelectSeq(results, LAMBDA r : Truthy(r.next_page_token)))

\* a step of the loop: the answered request took at least one query out of
\* the queue, and the queue grew by at most one query per carried token
LoopProgress ==
    (rpc = "querybatch" /\ rpc' \in {"querybatch", "vulns", "returned"}
        /\ (~StepFailed(Len(responses)))')
        => /\ Len(batch) >= 1
           /\ Outstanding(rpc', pending', batch')
                <= Outstanding(rpc, pending, batch) - Len(batch)
                        + TokensCarried(ResultsOf(Len(responses)))'

\* the loop is over and each of its requests was answered with a 2xx
\* response whose body parsed and held one result per query
LoopCompleted ==
    /\ rpc \in {"vulns", "returned", "threw"}
    /\ \A i \in AnsweredQueryBatches : ~StepFailed(i)

\* C29: the querybatch loop sends requests of between 1 and batchSize
\* queries; each answered request removes at least one pending query and
\* adds at most one per result that carried a token; when every request
\* completes and the server stops handing out tokens the loop terminates
\* with an empty pending queue.
C29_LoopTerminates ==
    /\ []BatchesWithinSize
    /\ [][LoopProgress]_vars
    /\ (rpc = "querybatch") ~> (rpc # "querybatch")
    /\ [](LoopCompleted => pending = <<>>)

----------------------------------------------------------------------------
(* src/adapters/osvScannerCli.ts                                            *)
(* What the command runner answers is an execution {exitCode, stdout,       *)
(* stderr} or a throw.  A stdout is its text together with what the code    *)
(* finds in it: whether it holds a "{" and, if so, what JSON.parse makes of *)
(* the text from the first "{" on (a body, or the message of the            *)
(* SyntaxError).                                                            *)

Stdout(text, jsonStart, parsed) ==
    [text |-> text, jsonStart |-> jsonStart, parsed |-> parsed]
Execution(exitCode, stdout, stderr) ==
    [exitCode |-> exitCode, stdout |-> stdout, stderr |-> stderr]

\* String.prototype.trim on the texts of the model
Trim(s) == IF s \in {"", " ", "\n"} THEN "" ELSE s

parseJsonOutput(stdout) ==
    IF stdout.jsonStart < 0
    THEN Err([type |-> "decode-error",
              message |-> "osv-scanner did not return JSON output"])
    ELSE IF ~stdout.parsed.ok
    THEN Err([type |-> "decode-error",
              message |-> "failed to parse osv-scanner JSON output: "
                            \o stdout.parsed.error])
    ELSE Ok(stdout.parsed.data)

\* the try block after run answered (242-259)
AfterRun(ran) ==
    IF ran.exitCode # 0
    THEN Err([type |-> "process-failed",
              message |->
                IF Trim(ran.stderr) # "" THEN Trim(ran.stderr)
                ELSE IF Trim(ran.stdout.text) # "" THEN Trim(ran.stdout.text)
                ELSE "osv-scanner exited with code " \o ToString(ran.exitCode)])
    ELSE parseJsonOutput(ran.stdout)

\* a scan that disposes of the file after the try block, without finally
Completion_NoFinally(settled) ==
    IF settled.threw THEN [to |-> "threw", completion |-> Throws, disposes |-> 0]
    ELSE [to |-> "disposing", completion |-> Value(AfterRun(settled.value)), disposes |-> 1]

\* try { ... } finally { await tempFile.dispose() } (237-262): the completion
\* of the try block is held while dispose runs
Completion(settled) ==
    IF settled.threw THEN [to |-> "disposing", completion |-> Throws, disposes |-> 1]
    ELSE [to |-> "disposing", completion |-> Value(AfterRun(settled.value)), disposes |-> 1]

----------------------------------------------------------------------------
(* Inputs of the CLI scan *)

SbomTexts == { "{}", "{\"components\":[]}", "not-json" }

O_Empty == Stdout("", -1, Err("none"))
O_NoJson == Stdout("no json here", -1, Err("none"))
O_WithLogs == Stdout("Scanned fixture {\"results\":[]}", 16, Ok([results |-> <<>>]))
O_Truncated == Stdout("{\"results\":[", 0, Err("Unexpected end of JSON input"))

Executions ==
    { Execution(c, o, e) : c \in {0, 1, 2},
                           o \in { O_Empty, O_NoJson, O_WithLogs, O_Truncated },
                           e \in { "", "boom", "\n" } }

\* run resolves with an execution, or throws (the command cannot be spawned)
RunOutcomes == { Throws } \cup { Value(x) : x \in Executions }

----------------------------------------------------------------------------
(* The CLI adapter: createOsvScannerCliAdapter, then one call of scan       *)

TempFile(contents, status) == Some([contents |-> contents, status |-> status])

InitCli ==
    /\ NoService
    /\ NoScan
    /\ NoRest
    /\ tpc = "idle"
    /\ tempFile = None
    /\ disposeCalls = 0
    /\ execution = None
    /\ cliResult = None

\* scan calls tempFiles.create(sbomJson) and awaits it (236)
CliScanCalled ==
    /\ tpc = "idle"
    /\ \E sbomJson \in SbomTexts : tempFile' = TempFile(sbomJson, "creating")
    /\ tpc' = "creating"
    /\ UNCHANGED <<disposeCalls, execution, cliResult>>
    /\ UNCHANGED <<serviceVars, scanVars, restVars>>

\* create settles: the file is written and run is called (238), or create
\* rejects and so does scan
TempFileSettles ==
    /\ tpc = "creating"
    /\ \/ /\ tempFile' = TempFile(Get(tempFile).contents, "created")
          /\ tpc' = "running"
       \/ /\ tempFile' = TempFile(Get(tempFile).contents, "failed")
          /\ tpc' = "threw"
    /\ UNCHANGED <<disposeCalls, execution, cliResult>>
    /\ UNCHANGED <<serviceVars, scanVars, restVars>>

\* scan moves on as the try block completed
CliProceed(d) ==
    /\ tpc' = d.to
    /\ cliResult' = Some(d.completion)
    /\ disposeCalls' = disposeCalls + d.disposes

\* run settles; the finally block calls tempFile.dispose() and awaits it
CommandSettles ==
    /\ tpc = "running"
    /\ \E settled \in RunOutcomes :
          /\ execution' = Some(settled)
          /\ CliProceed(Completion(settled))
    /\ UNCHANGED tempFile
    /\ UNCHANGED <<serviceVars, scanVars, restVars>>

\* dispose settles (rm with force, errors swallowed); scan delivers the
\* completion it held
DisposeSettles ==
    /\ tpc = "disposing"
    /\ tempFile' = TempFile(Get(tempFile).contents, "disposed")
    /\ tpc' = IF Get(cliResult).threw THEN "threw" ELSE "returned"
    /\ UNCHANGED <<disposeCalls, execution, cliResult>>
    /\ UNCHANGED <<serviceVars, scanVars, restVars>>

NextCli ==
    \/ CliScanCalled
    \/ TempFileSettles
    \/ CommandSettles
    \/ DisposeSettles

SpecCli == InitCli /\ [][NextCli]_vars

\* scan has delivered its outcome: it returned a result or it rejected
CliDelivered == tpc \in {"returned", "threw"}

FileWasCreated == IsSome(tempFile) /\ Get(tempFile).status \in {"created", "disposed"}

\* C24: a CLI scan that created its temporary SBOM file disposes of it
\* exactly once before its outcome is delivered, on every path: success,
\* non-zero exit, undecodable output, and the command runner throwing.
C24_TempFileDisposedOnce ==
    /\ [](disposeCalls <= 1)
    /\ []((CliDelivered /\ FileWasCreated) =>
              (disposeCalls = 1 /\ Get(tempFile).status = "disposed"))
    /\ []((CliDelivered /\ ~FileWasCreated) => disposeCalls = 0)
    /\ [][(CliDelivered' /\ ~CliDelivered /\ FileWasCreated)
              => (tpc = "disposing" /\ disposeCalls = 1)]_vars

\* the command runner threw; the file was disposed of before scan rejected
C24_Witness ==
    /\ tpc = "threw"
    /\ execution = Some(Throws)
    /\ disposeCalls = 1
    /\ Get(tempFile).status = "disposed"

====
